---------------------------- MODULE Spec2Model ----------------------------
(***************************************************************************)
(* Model of the TAPP Club backend (src/backend/main.py): the handlers that *)
(* mutate the friendships, "eventMembers" and "groupMembers" tables.       *)
(*                                                                         *)
(* Every handler modelled here issues either one SQL statement or one      *)
(* transaction on its own pooled connection, so a handler is one atomic    *)
(* step of the store and any interleaving of requests is a sequence of     *)
(* such steps.                                                             *)
(*                                                                         *)
(* uuid.UUID values are modelled by natural numbers: min()/max() on UUIDs  *)
(* compare their integer values.                                           *)
(***************************************************************************)
EXTENDS Integers, Sequences, FiniteSets, Bags

\* ------------------------------------------------------------------ bounds
\* user ids that requests may name (existing or not)
MaxUserId == 3
\* rows the friendships table may hold in the explored runs
MaxFriendships == 2
\* length of the user_ids list of an add-members / create-group request
MaxListLen == 2
\* rows the event_pictures table may hold
MaxPictures == 2
\* requests that may be in flight together
MaxCalls == 2
\* rows the posts table may hold
MaxPosts == 1
\* rows the post_pictures table may hold
MaxPostPictures == 1

UserIds == 1..MaxUserId
\* ids the store hands out for events and groups (RETURNING event_id / group_id)
EventIds == {"e1"}
GroupIds == {"g1"}

VARIABLES
    DB_POOL,       \* the global connection pool: NoPool (None) or Pool
    users,         \* users table: set of rows [user_id, auth0_sub]
    friendships,   \* friendships table: set of rows
    events,        \* events table: set of existing event_id values
    eventMembers,  \* "eventMembers" table: bag of rows [event_id, user_id, tapped]
    groups,        \* groups table: set of existing group_id values
    groupMembers,  \* "groupMembers" table: bag of rows [group_id, user_id]
    event_pictures, \* event_pictures table: set of rows
    posts,         \* posts table: set of rows [post_id, event_id, poster_id]
    post_pictures, \* post_pictures table: set of rows [picture_id, post_id, picture_url]
    calls,         \* requests in flight: call id -> the handler's position and locals
    last           \* the last request served and its HTTP response

vars == <<DB_POOL, users, friendships, events, eventMembers, groups, groupMembers,
          event_pictures, posts, post_pictures, calls, last>>

NoPool == "None"
Pool == "pool"

\* ------------------------------------------------------- command tags
\* asyncpg's Connection.execute returns the command tag of the statement, a
\* string such as "INSERT 0 1".  Strings are sequences of one-character strings.
Digits == <<"0", "1", "2", "3", "4", "5", "6", "7", "8", "9">>

RECURSIVE str(_)
\* Python str(n) for n >= 0
str(n) == IF n < 10 THEN <<Digits[n + 1]>>
          ELSE str(n \div 10) \o <<Digits[(n % 10) + 1]>>

INSERT_ == <<"I", "N", "S", "E", "R", "T">>

\* the tag of an INSERT that stored n rows: "INSERT <oid> <rows>", oid is 0
InsertTag(n) == INSERT_ \o <<" ", "0", " ">> \o str(n)

\* Python: needle in hay (substring test)
Contains(hay, needle) ==
    \E i \in 0..(Len(hay) - Len(needle)) :
        \A j \in 1..Len(needle) : hay[i + j] = needle[j]

\* s.split()[1], the second word: the oid of an INSERT tag
SecondWord(s) ==
    LET blanks == {i \in 1..Len(s) : s[i] = " "}
        first == CHOOSE i \in blanks : \A k \in blanks : i <= k
        later == {i \in blanks : i > first}
        stop == IF later = {} THEN Len(s) + 1
                ELSE CHOOSE i \in later : \A k \in later : i <= k
    IN SubSeq(s, first + 1, stop - 1)

\* Python: s.split()[-1], the last blank-separated word of s
LastWord(s) ==
    LET blanks == {i \in 1..Len(s) : s[i] = " "}
        start == IF blanks = {} THEN 1
                 ELSE (CHOOSE i \in blanks : \A k \in blanks : k <= i) + 1
    IN SubSeq(s, start, Len(s))

DigitValue(c) == (CHOOSE d \in 1..10 : Digits[d] = c) - 1

RECURSIVE int(_)
\* Python int(w) for a word of decimal digits
int(w) == IF Len(w) = 0 THEN 0
          ELSE 10 * int(SubSeq(w, 1, Len(w) - 1)) + DigitValue(w[Len(w)])

\* ------------------------------------------------------------ requests
NoResponse == [op |-> "none", status |-> 0, added_count |-> 0]
Response(op, status) == [op |-> op, status |-> status, added_count |-> 0]
\* a 200 response carrying added_count
AddedResponse(op, n) == [op |-> op, status |-> 200, added_count |-> n]

\* the gate of get_db_connection letting every request through
PoolUnavailableNever == FALSE

\* get_db_connection: 503 when the pool was never created
PoolUnavailable == DB_POOL = NoPool

\* lifespan: create_pool either succeeds or raises, leaving DB_POOL None
lifespan == {Pool, NoPool}

\* -------------------------------------------------------------- users
UserRow(user_id, auth0_sub) == [user_id |-> user_id, auth0_sub |-> auth0_sub]

\* a users table as get_or_create_user leaves it: one row per subject, the
\* subject of user i written i
UsersTable(ids) == {UserRow(i, i) : i \in ids}

UserExists(u) == \E r \in users : r.user_id = u

\* -------------------------------------------------------- friendships
FriendRow(u1, u2, status, action_user_id) ==
    [user_one_id |-> u1, user_two_id |-> u2, status |-> status,
     action_user_id |-> action_user_id]

minFirst(a, b) == a

\* Python min / max on two ids
min(a, b) == IF a <= b THEN a ELSE b
max(a, b) == IF a >= b THEN a ELSE b

\* ON CONFLICT (user_one_id, user_two_id): a row with the same key exists
FriendConflict(u1, u2) ==
    \E r \in friendships : r.user_one_id = u1 /\ r.user_two_id = u2

\* the conflict target widened by action_user_id
InsertFriendshipWideKey(u1, u2, requester_id) ==
    IF FriendRow(u1, u2, "pending", requester_id) \in friendships
    THEN [table |-> friendships, tag |-> InsertTag(0), error |-> "none"]
    ELSE IF ~(UserExists(u1) /\ UserExists(u2) /\ UserExists(requester_id))
    THEN [table |-> friendships, tag |-> << >>, error |-> "ForeignKeyViolationError"]
    ELSE [table |-> friendships \cup {FriendRow(u1, u2, "pending", requester_id)},
          tag |-> InsertTag(1), error |-> "none"]

\* the INSERT without its ON CONFLICT clause: the unique index raises
InsertFriendshipNoOnConflict(u1, u2, requester_id) ==
    IF FriendConflict(u1, u2)
    THEN [table |-> friendships, tag |-> << >>, error |-> "UniqueViolationError"]
    ELSE IF ~(UserExists(u1) /\ UserExists(u2) /\ UserExists(requester_id))
    THEN [table |-> friendships, tag |-> << >>, error |-> "ForeignKeyViolationError"]
    ELSE [table |-> friendships \cup {FriendRow(u1, u2, "pending", requester_id)},
          tag |-> InsertTag(1), error |-> "none"]

\* INSERT INTO friendships ... VALUES ($1, $2, 'pending', $3)
\* ON CONFLICT (user_one_id, user_two_id) DO NOTHING
\* The result: the table afterwards, the command tag, the error raised.
InsertFriendship(u1, u2, requester_id) ==
    IF FriendConflict(u1, u2)
    THEN [table |-> friendships, tag |-> InsertTag(0), error |-> "none"]
    ELSE IF ~(UserExists(u1) /\ UserExists(u2) /\ UserExists(requester_id))
    THEN [table |-> friendships, tag |-> << >>, error |-> "ForeignKeyViolationError"]
    ELSE [table |-> friendships \cup {FriendRow(u1, u2, "pending", requester_id)},
          tag |-> InsertTag(1), error |-> "none"]

\* the guard of the 409 branch: "INSERT 0" in result
ReportsConflict(result) == Contains(result, INSERT_ \o <<" ", "0">>)

IsSelfRequestNever(requester_id, addressee_id) == FALSE

\* the self-request guard: requester_id == addressee_id
IsSelfRequest(requester_id, addressee_id) == requester_id = addressee_id

\* POST /friend-requests
send_friend_request(requester_id, addressee_id) ==
    IF PoolUnavailable
    THEN /\ last' = Response("send_friend_request", 503)
         /\ UNCHANGED friendships
    ELSE IF IsSelfRequest(requester_id, addressee_id)
    THEN /\ last' = Response("send_friend_request", 400)
         /\ UNCHANGED friendships
    ELSE LET user_one_id == min(requester_id, addressee_id)
             user_two_id == max(requester_id, addressee_id)
             res == InsertFriendship(user_one_id, user_two_id, requester_id)
         IN IF res.error = "ForeignKeyViolationError"
            THEN /\ last' = Response("send_friend_request", 404)
                 /\ UNCHANGED friendships
            ELSE IF res.error # "none"
            \* except asyncpg.PostgresError
            THEN /\ last' = Response("send_friend_request", 500)
                 /\ UNCHANGED friendships
            ELSE /\ Cardinality(res.table) <= MaxFriendships
                 /\ friendships' = res.table
                 /\ last' = Response("send_friend_request",
                                     IF ReportsConflict(res.tag) THEN 409 ELSE 201)

\* FriendRequestAction
FriendRequestAction == {"accepted", "declined"}

UpdateMatchesAnyStatus(r, u1, u2, requester_id) ==
    /\ r.user_one_id = u1
    /\ r.user_two_id = u2
    /\ r.action_user_id = requester_id

UpdateMatchesAnySender(r, u1, u2, requester_id) ==
    /\ r.user_one_id = u1
    /\ r.user_two_id = u2
    /\ r.status = "pending"

UpdateMatchesPairOnly(r, u1, u2, requester_id) ==
    /\ r.user_one_id = u1
    /\ r.user_two_id = u2

\* the WHERE clause of the UPDATE in update_friend_request
UpdateMatches(r, u1, u2, requester_id) ==
    /\ r.user_one_id = u1
    /\ r.user_two_id = u2
    /\ r.status = "pending"
    /\ r.action_user_id = requester_id

UpdateSetRequester(r, new_status, responder_id, requester_id) ==
    [r EXCEPT !.status = new_status, !.action_user_id = requester_id]

\* the SET clause: status = $1, action_user_id = $2 (updated_at is not modelled)
UpdateSet(r, new_status, responder_id, requester_id) ==
    [r EXCEPT !.status = new_status, !.action_user_id = responder_id]

NothingUpdatedIgnored(result) == FALSE

\* the guard of the 404 branch: result is None
NothingUpdated(result) == result = "None"

\* the UPDATE ... RETURNING status of update_friend_request, one statement:
\* the table it leaves and what fetchval returns (None when no row matched)
update_query(requester_id, responder_id, new_status) ==
    LET user_one_id == min(requester_id, responder_id)
        user_two_id == max(requester_id, responder_id)
        matched == {r \in friendships :
                       UpdateMatches(r, user_one_id, user_two_id, requester_id)}
    IN [table |-> (friendships \ matched) \cup
                     {UpdateSet(r, new_status, responder_id, requester_id) : r \in matched},
        result |-> IF matched = {} THEN "None" ELSE new_status]

\* PATCH /friend-requests/{requester_id}
update_friend_request(requester_id, responder_id, new_status) ==
    IF PoolUnavailable
    THEN /\ last' = Response("update_friend_request", 503)
         /\ UNCHANGED friendships
    ELSE LET res == update_query(requester_id, responder_id, new_status)
         IN /\ friendships' = res.table
            /\ last' = Response("update_friend_request",
                                IF NothingUpdated(res.result) THEN 404 ELSE 200)

SendFriendRequest ==
    /\ \E requester_id, addressee_id \in UserIds :
            send_friend_request(requester_id, addressee_id)
    /\ UNCHANGED <<DB_POOL, users, events, eventMembers, groups, groupMembers, event_pictures,
                   posts, post_pictures, calls>>

UpdateFriendRequest ==
    /\ \E requester_id, responder_id \in UserIds, action \in FriendRequestAction :
            update_friend_request(requester_id, responder_id, action)
    /\ UNCHANGED <<DB_POOL, users, events, eventMembers, groups, groupMembers, event_pictures,
                   posts, post_pictures, calls>>

InitFriends ==
    /\ DB_POOL \in lifespan
    /\ users \in {UsersTable(ids) : ids \in SUBSET UserIds}
    /\ friendships = {}
    /\ events = {}
    /\ eventMembers = EmptyBag
    /\ groups = {}
    /\ groupMembers = EmptyBag
    /\ event_pictures = {}
    /\ posts = {}
    /\ post_pictures = {}
    /\ calls = << >>
    /\ last = NoResponse

NextFriends == SendFriendRequest \/ UpdateFriendRequest

SpecFriends == InitFriends /\ [][NextFriends]_vars

\* ---------------------------------------------------------- membership
\* request bodies: lists of user ids, duplicates allowed.  The handlers read a
\* list only through "not user_ids" and set(user_ids), so of the lists that
\* are reorderings of each other the non-decreasing one is explored.
RECURSIVE ListsUpTo(_)
ListsUpTo(n) ==
    IF n = 0 THEN {<< >>}
    ELSE ListsUpTo(n - 1) \cup
         {xs \in [1..n -> UserIds] : \A i \in 1..(n - 1) : xs[i] <= xs[i + 1]}
UserIdLists == ListsUpTo(MaxListLen)

\* Python set(xs)
set(xs) == {xs[i] : i \in 1..Len(xs)}

EventMemberRow(event_id, user_id, tapped) ==
    [event_id |-> event_id, user_id |-> user_id, tapped |-> tapped]

GroupMemberRow(group_id, user_id) == [group_id |-> group_id, user_id |-> user_id]

\* the rows of a membership bag with the given key, with their multiplicity
EventRows(t, event_id, user_id) ==
    {r \in BagToSet(t) : r.event_id = event_id /\ r.user_id = user_id}
GroupRows(t, group_id, user_id) ==
    {r \in BagToSet(t) : r.group_id = group_id /\ r.user_id = user_id}

\* the UNNEST insert with every candidate row stored, conflicting or not
InsertEventMembersNoConflictCheck(event_id, ids) ==
    IF ~(event_id \in events /\ \A u \in ids : UserExists(u))
    THEN [table |-> eventMembers, tag |-> << >>, error |-> "ForeignKeyViolationError"]
    ELSE [table |-> eventMembers (+) SetToBag({EventMemberRow(event_id, u, FALSE) : u \in ids}),
          tag |-> InsertTag(Cardinality(ids)), error |-> "none"]

\* the insert storing the rows it can and skipping those the store refuses
InsertEventMembersPartial(event_id, ids) ==
    LET fresh == {u \in ids : EventRows(eventMembers, event_id, u) = {}}
        ok == {u \in fresh : event_id \in events /\ UserExists(u)}
    IN IF fresh # {} /\ ok # fresh
       THEN [table |-> eventMembers (+) SetToBag({EventMemberRow(event_id, u, FALSE) : u \in ok}),
             tag |-> << >>, error |-> "ForeignKeyViolationError"]
       ELSE [table |-> eventMembers (+) SetToBag({EventMemberRow(event_id, u, FALSE) : u \in fresh}),
             tag |-> InsertTag(Cardinality(fresh)), error |-> "none"]

\* INSERT INTO "eventMembers" (event_id, user_id) SELECT $1, unnest($2::uuid[])
\* ON CONFLICT (event_id, user_id) DO NOTHING
\* One statement: a foreign-key failure of any stored row undoes all of it.
InsertEventMembers(event_id, ids) ==
    LET fresh == {u \in ids : EventRows(eventMembers, event_id, u) = {}}
    IN IF fresh # {} /\ ~(event_id \in events /\ \A u \in fresh : UserExists(u))
       THEN [table |-> eventMembers, tag |-> << >>, error |-> "ForeignKeyViolationError"]
       ELSE [table |-> eventMembers (+) SetToBag({EventMemberRow(event_id, u, FALSE) : u \in fresh}),
             tag |-> InsertTag(Cardinality(fresh)), error |-> "none"]

\* POST /events/{event_id}/members
add_members_to_event(event_id, user_ids) ==
    IF PoolUnavailable
    THEN /\ last' = Response("add_members_to_event", 503)
         /\ UNCHANGED eventMembers
    ELSE IF Len(user_ids) = 0
    THEN /\ last' = Response("add_members_to_event", 400)
         /\ UNCHANGED eventMembers
    ELSE LET unique_member_ids == set(user_ids)
             res == InsertEventMembers(event_id, unique_member_ids)
         IN IF res.error = "ForeignKeyViolationError"
            THEN /\ last' = Response("add_members_to_event", 404)
                 /\ eventMembers' = res.table
            ELSE /\ eventMembers' = res.table
                 /\ last' = AddedResponse("add_members_to_event", int(LastWord(res.tag)))

\* the statements of create_event run without db.transaction(): the event row
\* stays when the creator's row is refused
EventTransactionNoRollback(creator_id, new_event_id) ==
    LET events1 == events \cup {new_event_id}
    IN IF new_event_id \in events1 /\ UserExists(creator_id)
       THEN [events |-> events1,
             members |-> eventMembers (+)
                 SetToBag({EventMemberRow(new_event_id, creator_id, FALSE)}),
             error |-> "none"]
       ELSE [events |-> events1, members |-> eventMembers,
             error |-> "ForeignKeyViolationError"]

\* async with db.transaction(): INSERT INTO events ... RETURNING event_id, then
\* INSERT INTO "eventMembers" (event_id, user_id) VALUES ($1, $2).
\* A foreign-key failure of the second statement rolls the first one back.
EventTransaction(creator_id, new_event_id) ==
    LET events1 == events \cup {new_event_id}
    IN IF new_event_id \in events1 /\ UserExists(creator_id)
       THEN [events |-> events1,
             members |-> eventMembers (+)
                 SetToBag({EventMemberRow(new_event_id, creator_id, FALSE)}),
             error |-> "none"]
       ELSE [events |-> events, members |-> eventMembers,
             error |-> "ForeignKeyViolationError"]

\* POST /events: one transaction, insert the event, then the creator's row
create_event(creator_id, new_event_id) ==
    IF PoolUnavailable
    THEN /\ last' = Response("create_event", 503)
         /\ UNCHANGED <<events, eventMembers>>
    ELSE LET res == EventTransaction(creator_id, new_event_id)
         IN /\ events' = res.events
            /\ eventMembers' = res.members
            /\ last' = Response("create_event",
                                IF res.error = "ForeignKeyViolationError"
                                THEN 404 ELSE 201)

\* the group UNNEST insert with every candidate row stored
InsertGroupMembersNoConflictCheck(group_id, ids) ==
    IF ~(group_id \in groups /\ \A u \in ids : UserExists(u))
    THEN [table |-> groupMembers, tag |-> << >>, error |-> "ForeignKeyViolationError"]
    ELSE [table |-> groupMembers (+) SetToBag({GroupMemberRow(group_id, u) : u \in ids}),
          tag |-> InsertTag(Cardinality(ids)), error |-> "none"]

\* INSERT INTO "groupMembers" (group_id, user_id) SELECT $1, unnest($2::uuid[])
\* ON CONFLICT (group_id, user_id) DO NOTHING
InsertGroupMembers(group_id, ids) ==
    LET fresh == {u \in ids : GroupRows(groupMembers, group_id, u) = {}}
    IN IF fresh # {} /\ ~(group_id \in groups /\ \A u \in fresh : UserExists(u))
       THEN [table |-> groupMembers, tag |-> << >>, error |-> "ForeignKeyViolationError"]
       ELSE [table |-> groupMembers (+) SetToBag({GroupMemberRow(group_id, u) : u \in fresh}),
             tag |-> InsertTag(Cardinality(fresh)), error |-> "none"]

\* POST /groups/{group_id}/members
add_members_to_group(group_id, user_ids) ==
    IF PoolUnavailable
    THEN /\ last' = Response("add_members_to_group", 503)
         /\ UNCHANGED groupMembers
    ELSE IF Len(user_ids) = 0
    THEN /\ last' = Response("add_members_to_group", 400)
         /\ UNCHANGED groupMembers
    ELSE LET unique_member_ids == set(user_ids)
             res == InsertGroupMembers(group_id, unique_member_ids)
         IN IF res.error = "ForeignKeyViolationError"
            THEN /\ last' = Response("add_members_to_group", 404)
                 /\ groupMembers' = res.table
            ELSE /\ groupMembers' = res.table
                 /\ last' = AddedResponse("add_members_to_group", int(LastWord(res.tag)))

unique_member_ids_without_creator(creator_id, initial_member_ids) ==
    set(initial_member_ids)

\* unique_member_ids = set(initial_member_ids); unique_member_ids.add(creator_id)
unique_member_ids_of(creator_id, initial_member_ids) ==
    set(initial_member_ids) \cup {creator_id}

\* the statements of create_group_with_members run without db.transaction():
\* the group row stays when a member row is refused
GroupTransactionNoRollback(ids, new_group_id) ==
    LET groups1 == groups \cup {new_group_id}
    IN IF new_group_id \in groups1 /\ \A u \in ids : UserExists(u)
       THEN [groups |-> groups1,
             members |-> groupMembers (+)
                 SetToBag({GroupMemberRow(new_group_id, u) : u \in ids}),
             error |-> "none"]
       ELSE [groups |-> groups1, members |-> groupMembers,
             error |-> "ForeignKeyViolationError"]

\* async with db.transaction(): INSERT INTO groups ... RETURNING group_id, then
\* executemany INSERT INTO "groupMembers" (group_id, user_id) VALUES ($1, $2)
\* over the ids.  A foreign-key failure of any row rolls everything back.
GroupTransaction(ids, new_group_id) ==
    LET groups1 == groups \cup {new_group_id}
    IN IF new_group_id \in groups1 /\ \A u \in ids : UserExists(u)
       THEN [groups |-> groups1,
             members |-> groupMembers (+)
                 SetToBag({GroupMemberRow(new_group_id, u) : u \in ids}),
             error |-> "none"]
       ELSE [groups |-> groups, members |-> groupMembers,
             error |-> "ForeignKeyViolationError"]

\* POST /groups: one transaction, insert the group, then executemany over
\* set(initial_member_ids) with the creator added
create_group_with_members(creator_id, initial_member_ids, new_group_id) ==
    IF PoolUnavailable
    THEN /\ last' = Response("create_group_with_members", 503)
         /\ UNCHANGED <<groups, groupMembers>>
    ELSE LET res == GroupTransaction(
                        unique_member_ids_of(creator_id, initial_member_ids),
                        new_group_id)
         IN /\ groups' = res.groups
            /\ groupMembers' = res.members
            /\ last' = Response("create_group_with_members",
                                IF res.error = "ForeignKeyViolationError"
                                THEN 404 ELSE 201)

CreateEvent ==
    /\ \E creator_id \in UserIds, new_event_id \in EventIds \ events :
            create_event(creator_id, new_event_id)
    /\ UNCHANGED <<DB_POOL, users, friendships, groups, groupMembers, event_pictures,
                   posts, post_pictures, calls>>

AddMembersToEvent ==
    /\ \E event_id \in EventIds, user_ids \in UserIdLists :
            add_members_to_event(event_id, user_ids)
    /\ UNCHANGED <<DB_POOL, users, friendships, events, groups, groupMembers, event_pictures,
                   posts, post_pictures, calls>>

CreateGroupWithMembers ==
    /\ \E creator_id \in UserIds, initial_member_ids \in UserIdLists,
          new_group_id \in GroupIds \ groups :
            create_group_with_members(creator_id, initial_member_ids, new_group_id)
    /\ UNCHANGED <<DB_POOL, users, friendships, events, eventMembers, event_pictures,
                   posts, post_pictures, calls>>

AddMembersToGroup ==
    /\ \E group_id \in GroupIds, user_ids \in UserIdLists :
            add_members_to_group(group_id, user_ids)
    /\ UNCHANGED <<DB_POOL, users, friendships, events, eventMembers, groups, event_pictures,
                   posts, post_pictures, calls>>

InitMembers ==
    /\ DB_POOL \in lifespan
    /\ users \in {UsersTable(ids) : ids \in SUBSET UserIds}
    /\ friendships = {}
    /\ events = {}
    /\ eventMembers = EmptyBag
    /\ groups = {}
    /\ groupMembers = EmptyBag
    /\ event_pictures = {}
    /\ posts = {}
    /\ post_pictures = {}
    /\ calls = << >>
    /\ last = NoResponse

NextMembers ==
    \/ CreateEvent
    \/ AddMembersToEvent
    \/ CreateGroupWithMembers
    \/ AddMembersToGroup

SpecMembers == InitMembers /\ [][NextMembers]_vars

\* ------------------------------------------------------------ taps
\* SELECT COUNT(*) FROM "eventMembers" WHERE event_id = $1 AND user_id = ANY($2)
MemberCount(t, event_id, ids) ==
    BagCardinality([r \in {x \in BagToSet(t) : x.event_id = event_id /\ x.user_id \in ids}
                       |-> CopiesIn(r, t)])

\* the update matching the users' rows of every event
SetTappedEveryEvent(t, event_id, ids) ==
    LET hit(r) == r.user_id \in ids
        upd(r) == IF hit(r) THEN [r EXCEPT !.tapped = TRUE] ELSE r
    IN [n \in {upd(r) : r \in BagToSet(t)} |->
           CopiesIn(n, t)
           + (IF hit(n) THEN CopiesIn([n EXCEPT !.tapped = FALSE], t) ELSE 0)]

\* the update flipping the flag of the rows it matches
SetTappedToggle(t, event_id, ids) ==
    LET hit(r) == r.event_id = event_id /\ r.user_id \in ids
        upd(r) == IF hit(r) THEN [r EXCEPT !.tapped = ~r.tapped] ELSE r
    IN [n \in {upd(r) : r \in BagToSet(t)} |->
           IF hit(n) THEN CopiesIn([n EXCEPT !.tapped = ~n.tapped], t)
           ELSE CopiesIn(n, t)]

\* UPDATE "eventMembers" SET tapped = TRUE WHERE event_id = $1 AND user_id = ANY($2)
SetTapped(t, event_id, ids) ==
    LET hit(r) == r.event_id = event_id /\ r.user_id \in ids
        upd(r) == IF hit(r) THEN [r EXCEPT !.tapped = TRUE] ELSE r
    IN [n \in {upd(r) : r \in BagToSet(t)} |->
           CopiesIn(n, t)
           + (IF hit(n) THEN CopiesIn([n EXCEPT !.tapped = FALSE], t) ELSE 0)]

\* the update naming the tapped user only
update_tap_query_tapped_only(t, event_id, tapper_id, tapped_id) ==
    SetTapped(t, event_id, {tapped_id})

\* db.execute(update_tap_query, event_id, [tapper_id, tapped_id])
update_tap_query(t, event_id, tapper_id, tapped_id) ==
    SetTapped(t, event_id, {tapper_id, tapped_id})

\* the membership test refusing only when neither user is a member
NotBothMembersOnlyIfNone(member_count) == member_count = 0

\* if member_count != 2
NotBothMembers(member_count) == member_count # 2

IsSelfTapNever(tapper_id, tapped_id) == FALSE

\* if tapper_id == tapped_id
IsSelfTap(tapper_id, tapped_id) == tapper_id = tapped_id

\* POST /events/{event_id}/tap
tap_user_at_event(event_id, tapper_id, tapped_id) ==
    IF PoolUnavailable
    THEN /\ last' = Response("tap_user_at_event", 503)
         /\ UNCHANGED eventMembers
    ELSE IF IsSelfTap(tapper_id, tapped_id)
    THEN /\ last' = Response("tap_user_at_event", 400)
         /\ UNCHANGED eventMembers
    ELSE IF NotBothMembers(MemberCount(eventMembers, event_id, {tapper_id, tapped_id}))
    THEN /\ last' = Response("tap_user_at_event", 403)
         /\ UNCHANGED eventMembers
    ELSE /\ eventMembers' = update_tap_query(eventMembers, event_id, tapper_id, tapped_id)
         /\ last' = Response("tap_user_at_event", 200)

TapUserAtEvent ==
    /\ \E event_id \in EventIds, tapper_id \in UserIds, tapped_id \in UserIds :
            tap_user_at_event(event_id, tapper_id, tapped_id)
    /\ UNCHANGED <<DB_POOL, users, friendships, events, groups, groupMembers, event_pictures,
                   posts, post_pictures, calls>>

NextTap ==
    \/ CreateEvent
    \/ AddMembersToEvent
    \/ TapUserAtEvent

SpecTap == InitMembers /\ [][NextTap]_vars

\* ------------------------------------------------------ event pictures
\* the picture_url values a request may carry
PictureUrls == {"https://p/1"}

\* a row of event_pictures; picture_id is handed out by the store
EventPictureRow(picture_id, event_id, uploader_id, picture_url) ==
    [picture_id |-> picture_id, event_id |-> event_id,
     uploader_id |-> uploader_id, picture_url |-> picture_url]

\* the membership lookup finding a row for every user
member_record_any(event_id, uploader_id) == TRUE

\* SELECT 1 FROM "eventMembers" WHERE event_id = $1 AND user_id = $2
member_record(event_id, uploader_id) ==
    EventRows(eventMembers, event_id, uploader_id) # {}

\* POST /events/{event_id}/pictures
add_picture_to_event(event_id, uploader_id, picture_url) ==
    IF PoolUnavailable
    THEN /\ last' = Response("add_picture_to_event", 503)
         /\ UNCHANGED event_pictures
    ELSE IF ~member_record(event_id, uploader_id)
    THEN /\ last' = Response("add_picture_to_event", 403)
         /\ UNCHANGED event_pictures
    ELSE IF ~(event_id \in events /\ UserExists(uploader_id))
    THEN /\ last' = Response("add_picture_to_event", 404)
         /\ UNCHANGED event_pictures
    ELSE /\ Cardinality(event_pictures) < MaxPictures
         /\ event_pictures' = event_pictures \cup
                {EventPictureRow(Cardinality(event_pictures) + 1, event_id,
                                 uploader_id, picture_url)}
         /\ last' = Response("add_picture_to_event", 201)

\* the fields class EventDetail declares without a default
EventDetailFields ==
    {"event_id", "name", "description", "location", "dateTime", "attendees", "pictures"}

\* the keyword arguments get_event_details passes to EventDetail(...)
EventDetailKeywords ==
    {"event_id", "name", "description", "dateTime", "attendees", "pictures"}

\* pydantic raises ValidationError when a required field is not given
ValidationError(fields, keywords) == fields \ keywords # {}

\* the pictures query of get_event_details: the rows of the event
PicturesOf(event_id) == {p \in event_pictures : p.event_id = event_id}

\* GET /events/{event_id}; the ValidationError is not a PostgresError, so it
\* leaves the handler and the framework answers 500
get_event_details(event_id) ==
    last' = Response("get_event_details",
                     IF PoolUnavailable THEN 503
                     ELSE IF event_id \notin events THEN 404
                     ELSE IF ValidationError(EventDetailFields, EventDetailKeywords)
                          THEN 500
                     ELSE 200)

AddPictureToEvent ==
    /\ \E event_id \in EventIds, uploader_id \in UserIds, picture_url \in PictureUrls :
            add_picture_to_event(event_id, uploader_id, picture_url)
    /\ UNCHANGED <<DB_POOL, users, friendships, events, eventMembers, groups, groupMembers,
                   posts, post_pictures, calls>>

GetEventDetails ==
    /\ \E event_id \in EventIds : get_event_details(event_id)
    /\ UNCHANGED <<DB_POOL, users, friendships, events, eventMembers, groups,
                   groupMembers, event_pictures,
                   posts, post_pictures, calls>>

NextPictures ==
    \/ CreateEvent
    \/ AddMembersToEvent
    \/ AddPictureToEvent
    \/ GetEventDetails

SpecPictures == InitMembers /\ [][NextPictures]_vars

\* -------------------------------------------------------------- posts
\* the post_id values a request may name; the store hands them out in order
PostIds == 1..MaxPosts

\* a row of posts; post_id is handed out by the store
PostRow(post_id, event_id, poster_id) ==
    [post_id |-> post_id, event_id |-> event_id, poster_id |-> poster_id]

\* a row of post_pictures; picture_id is handed out by the store
PostPictureRow(picture_id, post_id, picture_url) ==
    [picture_id |-> picture_id, post_id |-> post_id, picture_url |-> picture_url]

\* POST /posts
create_post(event_id, poster_id) ==
    IF PoolUnavailable
    THEN /\ last' = Response("create_post", 503)
         /\ UNCHANGED posts
    ELSE IF ~member_record(event_id, poster_id)
    THEN /\ last' = Response("create_post", 403)
         /\ UNCHANGED posts
    ELSE IF ~(event_id \in events /\ UserExists(poster_id))
    THEN /\ last' = Response("create_post", 404)
         /\ UNCHANGED posts
    ELSE /\ Cardinality(posts) < MaxPosts
         /\ posts' = posts \cup
                {PostRow(Cardinality(posts) + 1, event_id, poster_id)}
         /\ last' = Response("create_post", 201)

\* SELECT poster_id FROM posts WHERE post_id = $1: the values found, none
\* when fetchval returns None
post_owner_query(post_id) == {r.poster_id : r \in {x \in posts : x.post_id = post_id}}

IsNotPosterNever(owners, uploader_id) == FALSE

\* if poster_id != picture_data.uploader_id
IsNotPoster(owners, uploader_id) == uploader_id \notin owners

\* POST /posts/{post_id}/pictures
add_picture_to_post(post_id, uploader_id, picture_url) ==
    IF PoolUnavailable
    THEN /\ last' = Response("add_picture_to_post", 503)
         /\ UNCHANGED post_pictures
    ELSE IF post_owner_query(post_id) = {}
    THEN /\ last' = Response("add_picture_to_post", 404)
         /\ UNCHANGED post_pictures
    ELSE IF IsNotPoster(post_owner_query(post_id), uploader_id)
    THEN /\ last' = Response("add_picture_to_post", 403)
         /\ UNCHANGED post_pictures
    ELSE /\ Cardinality(post_pictures) < MaxPostPictures
         /\ post_pictures' = post_pictures \cup
                {PostPictureRow(Cardinality(post_pictures) + 1, post_id, picture_url)}
         /\ last' = Response("add_picture_to_post", 201)

CreatePost ==
    /\ \E event_id \in EventIds, poster_id \in UserIds :
            create_post(event_id, poster_id)
    /\ UNCHANGED <<DB_POOL, users, friendships, events, eventMembers, groups,
                   groupMembers, event_pictures, post_pictures, calls>>

AddPictureToPost ==
    /\ \E post_id \in PostIds, uploader_id \in UserIds, picture_url \in PictureUrls :
            add_picture_to_post(post_id, uploader_id, picture_url)
    /\ UNCHANGED <<DB_POOL, users, friendships, events, eventMembers, groups,
                   groupMembers, event_pictures, posts, calls>>

NextPosts ==
    \/ CreateEvent
    \/ AddMembersToEvent
    \/ CreatePost
    \/ AddPictureToPost

SpecPosts == InitMembers /\ [][NextPosts]_vars

\* ------------------------------------------------- identity resolver
\* the subjects a request may carry: those of UsersTable and one more
Auth0Subs == UserIds \cup {MaxUserId + 1}

CallIds == 1..MaxCalls

\* the SELECT of get_or_create_user finding no row
find_user_query_none(auth0_sub) == {}

\* SELECT user_id FROM users WHERE auth0_sub = $1: the ids found, none when
\* fetchval returns None
find_user_query(auth0_sub) ==
    {r.user_id : r \in {x \in users : x.auth0_sub = auth0_sub}}

\* uuid.uuid4(): an id no row and no other request holds
uuid4 == UserIds \ {r.user_id : r \in users}

\* the uniqueness constraint of the subject column refuses the row
auth0_sub_taken(auth0_sub) == \E r \in users : r.auth0_sub = auth0_sub

\* INSERT INTO users (user_id, auth0_sub, username) VALUES ($1, $2, $3)
insert_user_query(new_user_id, auth0_sub) ==
    IF auth0_sub_taken(auth0_sub)
    THEN [table |-> users, error |-> "UniqueViolationError"]
    ELSE [table |-> users \cup {UserRow(new_user_id, auth0_sub)}, error |-> "none"]

\* the store's error leaving the insert unnoticed
InsertFailedIgnored(error) == FALSE

\* except asyncpg.PostgresError: the insert raised
InsertFailed(error) == error # "none"

\* the response of POST /users
UserAuthResponse(status, user_id) ==
    [op |-> "get_or_create_user", status |-> status, added_count |-> 0,
     user_id |-> user_id]

\* POST /users served without another request in between
get_or_create_user(auth0_sub) ==
    IF PoolUnavailable
    THEN /\ last' = Response("get_or_create_user", 503)
         /\ UNCHANGED users
    ELSE LET existing_user_id == find_user_query(auth0_sub)
         IN IF existing_user_id # {}
            THEN /\ \E user_id \in existing_user_id :
                       last' = UserAuthResponse(200, user_id)
                 /\ UNCHANGED users
            ELSE \E new_user_id \in uuid4 :
                    LET res == insert_user_query(new_user_id, auth0_sub)
                    IN /\ users' = res.table
                       /\ last' = IF InsertFailed(res.error)
                                  THEN Response("get_or_create_user", 500)
                                  ELSE UserAuthResponse(200, new_user_id)

GetOrCreateUser ==
    /\ \E auth0_sub \in Auth0Subs : get_or_create_user(auth0_sub)
    /\ UNCHANGED <<DB_POOL, friendships, events, eventMembers, groups, groupMembers,
                   event_pictures, posts, post_pictures, calls>>

InitUsers ==
    /\ DB_POOL \in lifespan
    /\ users = {}
    /\ friendships = {}
    /\ events = {}
    /\ eventMembers = EmptyBag
    /\ groups = {}
    /\ groupMembers = EmptyBag
    /\ event_pictures = {}
    /\ posts = {}
    /\ post_pictures = {}
    /\ calls = << >>
    /\ last = NoResponse

NextUsers == GetOrCreateUser

SpecUsers == InitUsers /\ [][NextUsers]_vars

\* --------------------------------- identity resolver, requests in flight
\* a request of POST /users: its position in get_or_create_user, its subject
\* and, once answered, its response
UserCall(pc, auth0_sub, status, user_id) ==
    [pc |-> pc, auth0_sub |-> auth0_sub, status |-> status, user_id |-> user_id]

IdleCall == UserCall("idle", 0, 0, 0)

\* the request arrives: Depends(get_db_connection)
get_or_create_user_call(c, auth0_sub) ==
    /\ calls[c].pc = "idle"
    /\ calls' = [calls EXCEPT ![c] =
                    IF PoolUnavailable THEN UserCall("done", auth0_sub, 503, 0)
                    ELSE UserCall("find", auth0_sub, 0, 0)]
    /\ UNCHANGED users

\* existing_user_id = await db.fetchval(find_user_query, auth_data.auth0_sub)
get_or_create_user_find(c) ==
    /\ calls[c].pc = "find"
    /\ LET existing_user_id == find_user_query(calls[c].auth0_sub)
       IN IF existing_user_id # {}
          THEN \E user_id \in existing_user_id :
                  calls' = [calls EXCEPT ![c] =
                               UserCall("done", calls[c].auth0_sub, 200, user_id)]
          ELSE calls' = [calls EXCEPT ![c].pc = "insert"]
    /\ UNCHANGED users

\* new_user_id = uuid.uuid4(); await db.execute(insert_user_query, ...)
get_or_create_user_insert(c) ==
    /\ calls[c].pc = "insert"
    /\ \E new_user_id \in uuid4 :
          LET res == insert_user_query(new_user_id, calls[c].auth0_sub)
          IN /\ users' = res.table
             /\ calls' = [calls EXCEPT ![c] =
                             IF InsertFailed(res.error)
                             THEN UserCall("done", calls[c].auth0_sub, 500, 0)
                             ELSE UserCall("done", calls[c].auth0_sub, 200, new_user_id)]

UserCallArrives ==
    /\ \E c \in CallIds, auth0_sub \in Auth0Subs : get_or_create_user_call(c, auth0_sub)
    /\ UNCHANGED <<DB_POOL, friendships, events, eventMembers, groups, groupMembers,
                   event_pictures, posts, post_pictures, last>>

UserCallFinds ==
    /\ \E c \in CallIds : get_or_create_user_find(c)
    /\ UNCHANGED <<DB_POOL, friendships, events, eventMembers, groups, groupMembers,
                   event_pictures, posts, post_pictures, last>>

UserCallInserts ==
    /\ \E c \in CallIds : get_or_create_user_insert(c)
    /\ UNCHANGED <<DB_POOL, friendships, events, eventMembers, groups, groupMembers,
                   event_pictures, posts, post_pictures, last>>

InitUserRace ==
    /\ DB_POOL \in lifespan
    /\ users = {}
    /\ friendships = {}
    /\ events = {}
    /\ eventMembers = EmptyBag
    /\ groups = {}
    /\ groupMembers = EmptyBag
    /\ event_pictures = {}
    /\ posts = {}
    /\ post_pictures = {}
    /\ calls = [c \in CallIds |-> IdleCall]
    /\ last = NoResponse

NextUserRace ==
    \/ UserCallArrives
    \/ UserCallFinds
    \/ UserCallInserts

SpecUserRace == InitUserRace /\ [][NextUserRace]_vars

\* ------------------------------------------------------------ profile
\* LIMIT 12 of latest_events_query
LatestEventsLimit == 12

\* the count taking the rows with the user in the first column only
friend_count_query_first_column(user_id) ==
    Cardinality({r \in friendships : r.user_one_id = user_id /\ r.status = "accepted"})

\* SELECT COUNT(*) FROM friendships
\* WHERE (user_one_id = $1 OR user_two_id = $1) AND status = 'accepted'
friend_count_query(user_id) ==
    Cardinality({r \in friendships :
                    /\ (r.user_one_id = user_id \/ r.user_two_id = user_id)
                    /\ r.status = "accepted"})

\* SELECT COUNT(*) FROM "eventMembers" WHERE user_id = $1
event_count_query(user_id) ==
    BagCardinality([r \in {x \in BagToSet(eventMembers) : x.user_id = user_id}
                       |-> CopiesIn(r, eventMembers)])

\* latest_events_query: the events joined with the user's membership rows,
\* at most LatestEventsLimit of them (one preview per membership row)
latest_events_query(user_id) ==
    LET rows == {r.event_id : r \in {x \in BagToSet(eventMembers) :
                                        x.user_id = user_id /\ x.event_id \in events}}
    IN IF Cardinality(rows) <= LatestEventsLimit THEN {rows}
       ELSE {some \in SUBSET rows : Cardinality(some) = LatestEventsLimit}

\* the fields class EventPreview declares without a default
EventPreviewFields == {"event_id", "name", "description", "location", "dateTime"}

\* the keyword arguments get_user_profile passes to EventPreview(...)
EventPreviewKeywords ==
    {"event_id", "name", "description", "dateTime", "first_picture_url"}

\* the previews refused also when there is no row to preview
PreviewsFailWithoutRows(latest_event_rows) ==
    latest_event_rows = {} \/ ValidationError(EventPreviewFields, EventPreviewKeywords)

\* latest_events = [EventPreview(...) for row in latest_event_rows] raises
\* when a preview is built and a required field is not given
PreviewsFail(latest_event_rows) ==
    latest_event_rows # {} /\ ValidationError(EventPreviewFields, EventPreviewKeywords)

\* the response of GET /users/{user_id}/profile
UserProfile(user_id, friend_count, event_count, latest_events) ==
    [op |-> "get_user_profile", status |-> 200, added_count |-> 0,
     user_id |-> user_id, friend_count |-> friend_count,
     event_count |-> event_count, latest_events |-> latest_events]

\* GET /users/{user_id}/profile; a ValidationError is not a PostgresError, so
\* it leaves the handler and the framework answers 500
get_user_profile(user_id) ==
    IF PoolUnavailable
    THEN last' = Response("get_user_profile", 503)
    ELSE IF ~UserExists(user_id)
    THEN last' = Response("get_user_profile", 404)
    ELSE \E latest_event_rows \in latest_events_query(user_id) :
            IF PreviewsFail(latest_event_rows)
            THEN last' = Response("get_user_profile", 500)
            ELSE last' = UserProfile(user_id, friend_count_query(user_id),
                                     event_count_query(user_id), latest_event_rows)

GetUserProfile ==
    /\ \E user_id \in UserIds : get_user_profile(user_id)
    /\ UNCHANGED <<DB_POOL, users, friendships, events, eventMembers, groups,
                   groupMembers, event_pictures, posts, post_pictures, calls>>

NextFriendProfile ==
    \/ SendFriendRequest
    \/ UpdateFriendRequest
    \/ GetUserProfile

SpecFriendProfile == InitFriends /\ [][NextFriendProfile]_vars

NextEventProfile ==
    \/ CreateEvent
    \/ AddMembersToEvent
    \/ GetUserProfile

SpecEventProfile == InitMembers /\ [][NextEventProfile]_vars

\* --------------------------------------------------- pool unavailable
\* create_pool failed at startup: DB_POOL stays None, while the store holds
\* what earlier runs left in it
InitOutage ==
    /\ DB_POOL \in {p \in lifespan : p = NoPool}
    /\ users \in {UsersTable(ids) : ids \in SUBSET UserIds}
    /\ friendships \in {{}} \cup
          {{FriendRow(min(p[1], p[2]), max(p[1], p[2]), "pending", p[1])} :
              p \in {q \in {r.user_id : r \in users} \X {r.user_id : r \in users} :
                        q[1] # q[2]}}
    /\ \E started \in SUBSET {r.user_id : r \in users} :
          /\ Cardinality(started) <= 1
          /\ events = {e \in EventIds : started # {}}
          /\ eventMembers = SetToBag({EventMemberRow(e, u, FALSE) :
                                         e \in events, u \in started})
          /\ groups = {g \in GroupIds : started # {}}
          /\ groupMembers = SetToBag({GroupMemberRow(g, u) :
                                         g \in groups, u \in started})
    /\ event_pictures = {}
    /\ posts = {}
    /\ post_pictures = {}
    /\ calls = << >>
    /\ last = NoResponse

NextOutage ==
    \/ SendFriendRequest
    \/ UpdateFriendRequest
    \/ GetUserProfile
    \/ AddPictureToEvent
    \/ GetEventDetails
    \/ CreateEvent
    \/ GetOrCreateUser
    \/ CreateGroupWithMembers
    \/ AddMembersToGroup
    \/ CreatePost
    \/ AddPictureToPost
    \/ AddMembersToEvent
    \/ TapUserAtEvent

SpecOutage == InitOutage /\ [][NextOutage]_vars

\* ------------------------------------ responding, requests in flight
RespondCallIds == {"r1", "r2"}

\* a request of PATCH /friend-requests/{requester_id}: its position in
\* update_friend_request, its arguments, whether the request it answers was
\* pending when it arrived and, once answered, its response status
RespondCall(pc, requester_id, responder_id, new_status, pending_at_call, status) ==
    [pc |-> pc, requester_id |-> requester_id, responder_id |-> responder_id,
     new_status |-> new_status, pending_at_call |-> pending_at_call,
     status |-> status]

IdleRespond == RespondCall("idle", 0, 0, "none", FALSE, 0)

\* the request arrives: Depends(get_db_connection)
update_friend_request_call(c, requester_id, responder_id, new_status) ==
    /\ calls[c].pc = "idle"
    /\ LET pending == \E r \in friendships :
                         UpdateMatches(r, min(requester_id, responder_id),
                                       max(requester_id, responder_id), requester_id)
       IN calls' = [calls EXCEPT ![c] =
                       RespondCall(IF PoolUnavailable THEN "done" ELSE "update",
                                   requester_id, responder_id, new_status, pending,
                                   IF PoolUnavailable THEN 503 ELSE 0)]
    /\ UNCHANGED friendships

\* result = await db.fetchval(query, ...) and the response
update_friend_request_execute(c) ==
    /\ calls[c].pc = "update"
    /\ LET res == update_query(calls[c].requester_id, calls[c].responder_id,
                               calls[c].new_status)
       IN /\ friendships' = res.table
          /\ calls' = [calls EXCEPT ![c].pc = "done",
                                    ![c].status = IF NothingUpdated(res.result)
                                                  THEN 404 ELSE 200]

RespondCallArrives ==
    /\ \E c \in RespondCallIds, requester_id \in UserIds, responder_id \in UserIds,
          new_status \in FriendRequestAction :
            update_friend_request_call(c, requester_id, responder_id, new_status)
    /\ UNCHANGED <<DB_POOL, users, events, eventMembers, groups, groupMembers,
                   event_pictures, posts, post_pictures, last>>

RespondCallExecutes ==
    /\ \E c \in RespondCallIds : update_friend_request_execute(c)
    /\ UNCHANGED <<DB_POOL, users, events, eventMembers, groups, groupMembers,
                   event_pictures, posts, post_pictures, last>>

\* the store holds one pending request between users 1 and 2, sent by
\* either of them; no respond request has been made
InitRespondRace ==
    /\ DB_POOL \in lifespan
    /\ users = UsersTable(UserIds)
    /\ friendships \in {{FriendRow(1, 2, "pending", a)} : a \in {1, 2}}
    /\ events = {}
    /\ eventMembers = EmptyBag
    /\ groups = {}
    /\ groupMembers = EmptyBag
    /\ event_pictures = {}
    /\ posts = {}
    /\ post_pictures = {}
    /\ calls = [c \in RespondCallIds |-> IdleRespond]
    /\ last = NoResponse

NextRespondRace ==
    \/ RespondCallArrives
    \/ RespondCallExecutes

SpecRespondRace == InitRespondRace /\ [][NextRespondRace]_vars

\* ------------------------------------ adding members, requests in flight
AddCallIds == {"a1", "a2"}

\* user_ids_list = list(unique_member_ids): the elements of the set in the
\* order of its hash table, which differs from one set to another
user_ids_list_of(ids) ==
    {xs \in [1..Cardinality(ids) -> ids] :
        \A i, j \in 1..Cardinality(ids) : i # j => xs[i] # xs[j]}

\* a request of POST /events/{event_id}/members: its position in
\* add_members_to_event, the list handed to the insert, the place the insert
\* has reached in it, the rows it has stored and not yet committed, and, once
\* answered, its response
AddCall(pc, event_id, user_ids_list, pos, inserted, status, added_count) ==
    [pc |-> pc, event_id |-> event_id, user_ids_list |-> user_ids_list, pos |-> pos,
     inserted |-> inserted, status |-> status, added_count |-> added_count]

IdleAdd == AddCall("idle", "none", << >>, 1, {}, 0, 0)

\* the request arrives: Depends(get_db_connection), "if not user_ids_to_add",
\* set() and list()
add_members_to_event_call(c, event_id, user_ids) ==
    /\ calls[c].pc = "idle"
    /\ IF PoolUnavailable
       THEN calls' = [calls EXCEPT ![c] = AddCall("done", event_id, << >>, 1, {}, 503, 0)]
       ELSE IF Len(user_ids) = 0
       THEN calls' = [calls EXCEPT ![c] = AddCall("done", event_id, << >>, 1, {}, 400, 0)]
       ELSE \E user_ids_list \in user_ids_list_of(set(user_ids)) :
               calls' = [calls EXCEPT ![c] =
                            AddCall("insert", event_id, user_ids_list, 1, {}, 0, 0)]
    /\ UNCHANGED eventMembers

\* the requests whose uncommitted row has the key the insert of c is at: the
\* insert waits until such a request commits or rolls back
RowHolders(c) ==
    {d \in AddCallIds \ {c} :
        /\ calls[d].pc = "insert"
        /\ calls[d].event_id = calls[c].event_id
        /\ calls[c].user_ids_list[calls[c].pos] \in calls[d].inserted}

\* the insert takes the next row of unnest($2): ON CONFLICT DO NOTHING skips
\* a key that is stored, otherwise the row is stored, uncommitted
add_members_to_event_row(c) ==
    /\ calls[c].pc = "insert"
    /\ calls[c].pos <= Len(calls[c].user_ids_list)
    /\ RowHolders(c) = {}
    /\ LET u == calls[c].user_ids_list[calls[c].pos]
       IN calls' = [calls EXCEPT
                       ![c].pos = @ + 1,
                       ![c].inserted =
                           IF EventRows(eventMembers, calls[c].event_id, u) = {}
                           THEN @ \cup {u} ELSE @]
    /\ UNCHANGED eventMembers

\* the end of the statement: the foreign keys of the stored rows are checked,
\* the statement commits, and the handler reads the command tag
add_members_to_event_commit(c) ==
    /\ calls[c].pc = "insert"
    /\ calls[c].pos > Len(calls[c].user_ids_list)
    /\ LET fresh == calls[c].inserted
           event_id == calls[c].event_id
       IN IF fresh # {} /\ ~(event_id \in events /\ \A u \in fresh : UserExists(u))
          THEN /\ calls' = [calls EXCEPT ![c].pc = "done", ![c].inserted = {},
                                          ![c].status = 404]
               /\ UNCHANGED eventMembers
          ELSE /\ eventMembers' =
                      eventMembers (+) SetToBag({EventMemberRow(event_id, u, FALSE) : u \in fresh})
               /\ calls' = [calls EXCEPT
                               ![c].pc = "done", ![c].inserted = {}, ![c].status = 200,
                               ![c].added_count = int(LastWord(InsertTag(Cardinality(fresh))))]

\* two inserts each waiting for a row of the other: the store ends one of
\* them with a deadlock error, a PostgresError, which the handler answers
\* with 500; the rows of the ended statement are rolled back
add_members_to_event_deadlock(c) ==
    /\ calls[c].pc = "insert"
    /\ calls[c].pos <= Len(calls[c].user_ids_list)
    /\ \E d \in RowHolders(c) :
          /\ calls[d].pos <= Len(calls[d].user_ids_list)
          /\ c \in RowHolders(d)
    /\ calls' = [calls EXCEPT ![c].pc = "done", ![c].inserted = {}, ![c].status = 500]
    /\ UNCHANGED eventMembers

AddCallArrives ==
    /\ \E c \in AddCallIds, event_id \in EventIds, user_ids \in UserIdLists :
            add_members_to_event_call(c, event_id, user_ids)
    /\ UNCHANGED <<DB_POOL, users, friendships, events, groups, groupMembers,
                   event_pictures, posts, post_pictures, last>>

AddCallInsertsRow ==
    /\ \E c \in AddCallIds : add_members_to_event_row(c)
    /\ UNCHANGED <<DB_POOL, users, friendships, events, groups, groupMembers,
                   event_pictures, posts, post_pictures, last>>

AddCallCommits ==
    /\ \E c \in AddCallIds : add_members_to_event_commit(c)
    /\ UNCHANGED <<DB_POOL, users, friendships, events, groups, groupMembers,
                   event_pictures, posts, post_pictures, last>>

AddCallDeadlocks ==
    /\ \E c \in AddCallIds : add_members_to_event_deadlock(c)
    /\ UNCHANGED <<DB_POOL, users, friendships, events, groups, groupMembers,
                   event_pictures, posts, post_pictures, last>>

\* the event is stored and has no member; no request has been made
InitAddRace ==
    /\ DB_POOL \in lifespan
    /\ users \in {UsersTable(ids) : ids \in SUBSET UserIds}
    /\ friendships = {}
    /\ events = EventIds
    /\ eventMembers = EmptyBag
    /\ groups = {}
    /\ groupMembers = EmptyBag
    /\ event_pictures = {}
    /\ posts = {}
    /\ post_pictures = {}
    /\ calls = [c \in AddCallIds |-> IdleAdd]
    /\ last = NoResponse

NextAddRace ==
    \/ AddCallArrives
    \/ AddCallInsertsRow
    \/ AddCallCommits
    \/ AddCallDeadlocks

SpecAddRace == InitAddRace /\ [][NextAddRace]_vars

\* ------------------------------------------- tapping, requests in flight
TapCallIds == {"t1", "t2"}

\* a request of POST /events/{event_id}/tap: its position in
\* tap_user_at_event, its arguments, the rows its update has written and holds
\* locked until the transaction ends, whether the update had to wait for a
\* row, and, once answered, its response status
TapCall(pc, event_id, tapper_id, tapped_id, locked, waited, status) ==
    [pc |-> pc, event_id |-> event_id, tapper_id |-> tapper_id,
     tapped_id |-> tapped_id, locked |-> locked, waited |-> waited, status |-> status]

IdleTap == TapCall("idle", "none", 0, 0, {}, FALSE, 0)

\* the request arrives: Depends(get_db_connection), the self-tap test, and
\* the transaction begins
tap_user_at_event_call(c, event_id, tapper_id, tapped_id) ==
    /\ calls[c].pc = "idle"
    /\ calls' = [calls EXCEPT ![c] =
                    IF PoolUnavailable
                    THEN TapCall("done", event_id, tapper_id, tapped_id, {}, FALSE, 503)
                    ELSE IF IsSelfTap(tapper_id, tapped_id)
                    THEN TapCall("done", event_id, tapper_id, tapped_id, {}, FALSE, 400)
                    ELSE TapCall("check", event_id, tapper_id, tapped_id, {}, FALSE, 0)]
    /\ UNCHANGED eventMembers

\* member_count = await db.fetchval(check_membership_query, ...): a read of
\* the committed rows, and the test on it
tap_user_at_event_check(c) ==
    /\ calls[c].pc = "check"
    /\ calls' = [calls EXCEPT
                    ![c].pc = IF NotBothMembers(MemberCount(eventMembers, calls[c].event_id,
                                                {calls[c].tapper_id, calls[c].tapped_id}))
                              THEN "done" ELSE "update",
                    ![c].status = IF NotBothMembers(MemberCount(eventMembers, calls[c].event_id,
                                                    {calls[c].tapper_id, calls[c].tapped_id}))
                                  THEN 403 ELSE 0]
    /\ UNCHANGED eventMembers

\* the rows update_tap_query matches and has not written yet
RowsToUpdate(c) ==
    {u \in {calls[c].tapper_id, calls[c].tapped_id} \ calls[c].locked :
        \E r \in BagToSet(eventMembers) :
            r.event_id = calls[c].event_id /\ r.user_id = u}

\* the row the update reaches next: every statement visits the rows of the
\* table in the table's order, whatever the order of the array $2
NextRowToUpdate(c) == CHOOSE u \in RowsToUpdate(c) : \A v \in RowsToUpdate(c) : u <= v

\* the requests holding the lock of a row
RowLockHolders(c, u) ==
    {d \in TapCallIds \ {c} :
        calls[d].event_id = calls[c].event_id /\ u \in calls[d].locked}

\* await db.execute(update_tap_query, ...), one row of it: the row is written
\* and locked, or, when another transaction holds it, the statement waits
tap_user_at_event_update(c) ==
    /\ calls[c].pc = "update"
    /\ RowsToUpdate(c) # {}
    /\ LET u == NextRowToUpdate(c)
       IN IF RowLockHolders(c, u) # {}
          THEN /\ ~calls[c].waited
               /\ calls' = [calls EXCEPT ![c].waited = TRUE]
          ELSE calls' = [calls EXCEPT ![c].locked = @ \cup {u}]
    /\ UNCHANGED eventMembers

\* the update is through, the transaction commits and the handler answers:
\* the written rows become the stored ones, the locks are released
tap_user_at_event_commit(c) ==
    /\ calls[c].pc = "update"
    /\ RowsToUpdate(c) = {}
    /\ eventMembers' = update_tap_query(eventMembers, calls[c].event_id,
                                        calls[c].tapper_id, calls[c].tapped_id)
    /\ calls' = [calls EXCEPT ![c].pc = "done", ![c].locked = {}, ![c].status = 200]

TapCallArrives ==
    /\ \E c \in TapCallIds, event_id \in EventIds, tapper_id \in UserIds,
          tapped_id \in UserIds :
            tap_user_at_event_call(c, event_id, tapper_id, tapped_id)
    /\ UNCHANGED <<DB_POOL, users, friendships, events, groups, groupMembers,
                   event_pictures, posts, post_pictures, last>>

TapCallChecks ==
    /\ \E c \in TapCallIds : tap_user_at_event_check(c)
    /\ UNCHANGED <<DB_POOL, users, friendships, events, groups, groupMembers,
                   event_pictures, posts, post_pictures, last>>

TapCallUpdates ==
    /\ \E c \in TapCallIds : tap_user_at_event_update(c)
    /\ UNCHANGED <<DB_POOL, users, friendships, events, groups, groupMembers,
                   event_pictures, posts, post_pictures, last>>

TapCallCommits ==
    /\ \E c \in TapCallIds : tap_user_at_event_commit(c)
    /\ UNCHANGED <<DB_POOL, users, friendships, events, groups, groupMembers,
                   event_pictures, posts, post_pictures, last>>

\* the event is stored with some of the users as members, none of them
\* tapped; no tap request has been made
InitTapRace ==
    /\ DB_POOL \in lifespan
    /\ users = UsersTable(UserIds)
    /\ friendships = {}
    /\ events = EventIds
    /\ eventMembers \in {SetToBag({EventMemberRow("e1", u, FALSE) : u \in ids}) :
                            ids \in SUBSET UserIds}
    /\ groups = {}
    /\ groupMembers = EmptyBag
    /\ event_pictures = {}
    /\ posts = {}
    /\ post_pictures = {}
    /\ calls = [c \in TapCallIds |-> IdleTap]
    /\ last = NoResponse

NextTapRace ==
    \/ TapCallArrives
    \/ TapCallChecks
    \/ TapCallUpdates
    \/ TapCallCommits

SpecTapRace == InitTapRace /\ [][NextTapRace]_vars

\* ------------------------------------------ uploading, requests in flight
PictureCallIds == {"p1", "p2"}

\* a request of POST /events/{event_id}/pictures: its position in
\* add_picture_to_event, its arguments, whether the uploader was a member
\* when the request arrived, and, once answered, its response status
PictureCall(pc, event_id, uploader_id, picture_url, member_at_call, status) ==
    [pc |-> pc, event_id |-> event_id, uploader_id |-> uploader_id,
     picture_url |-> picture_url, member_at_call |-> member_at_call, status |-> status]

IdlePicture == PictureCall("idle", "none", 0, "none", FALSE, 0)

\* the request arrives: Depends(get_db_connection)
add_picture_to_event_call(c, event_id, uploader_id, picture_url) ==
    /\ calls[c].pc = "idle"
    /\ calls' = [calls EXCEPT ![c] =
                    PictureCall(IF PoolUnavailable THEN "done" ELSE "check",
                                event_id, uploader_id, picture_url,
                                EventRows(eventMembers, event_id, uploader_id) # {},
                                IF PoolUnavailable THEN 503 ELSE 0)]
    /\ UNCHANGED event_pictures

\* member_record = await db.fetchrow(is_member_query, ...); if not member_record
add_picture_to_event_check(c) ==
    /\ calls[c].pc = "check"
    /\ calls' = [calls EXCEPT
                    ![c].pc = IF member_record(calls[c].event_id, calls[c].uploader_id)
                              THEN "insert" ELSE "done",
                    ![c].status = IF member_record(calls[c].event_id, calls[c].uploader_id)
                                  THEN 0 ELSE 403]
    /\ UNCHANGED event_pictures

\* new_picture_record = await db.fetchrow(insert_query, ...), a statement of
\* its own, and the response
add_picture_to_event_insert(c) ==
    /\ calls[c].pc = "insert"
    /\ IF ~(calls[c].event_id \in events /\ UserExists(calls[c].uploader_id))
       THEN /\ calls' = [calls EXCEPT ![c].pc = "done", ![c].status = 404]
            /\ UNCHANGED event_pictures
       ELSE /\ Cardinality(event_pictures) < MaxPictures
            /\ event_pictures' = event_pictures \cup
                   {EventPictureRow(Cardinality(event_pictures) + 1, calls[c].event_id,
                                    calls[c].uploader_id, calls[c].picture_url)}
            /\ calls' = [calls EXCEPT ![c].pc = "done", ![c].status = 201]

PictureCallArrives ==
    /\ \E c \in PictureCallIds, event_id \in EventIds, uploader_id \in UserIds,
          picture_url \in PictureUrls :
            add_picture_to_event_call(c, event_id, uploader_id, picture_url)
    /\ UNCHANGED <<DB_POOL, users, friendships, events, eventMembers, groups, groupMembers,
                   posts, post_pictures, last>>

PictureCallChecks ==
    /\ \E c \in PictureCallIds : add_picture_to_event_check(c)
    /\ UNCHANGED <<DB_POOL, users, friendships, events, eventMembers, groups, groupMembers,
                   posts, post_pictures, last>>

PictureCallInserts ==
    /\ \E c \in PictureCallIds : add_picture_to_event_insert(c)
    /\ UNCHANGED <<DB_POOL, users, friendships, events, eventMembers, groups, groupMembers,
                   posts, post_pictures, last>>

\* createEvent and addMembers answer between the statements of an upload
CreateEventMeanwhile ==
    /\ \E creator_id \in UserIds, new_event_id \in EventIds \ events :
            create_event(creator_id, new_event_id)
    /\ UNCHANGED <<DB_POOL, users, friendships, groups, groupMembers, event_pictures,
                   posts, post_pictures, calls>>

AddMembersMeanwhile ==
    /\ \E event_id \in EventIds, user_ids \in UserIdLists :
            add_members_to_event(event_id, user_ids)
    /\ UNCHANGED <<DB_POOL, users, friendships, events, groups, groupMembers, event_pictures,
                   posts, post_pictures, calls>>

\* an empty store; no upload request has been made
InitPictureRace ==
    /\ DB_POOL \in lifespan
    /\ users \in {UsersTable(ids) : ids \in SUBSET UserIds}
    /\ friendships = {}
    /\ events = {}
    /\ eventMembers = EmptyBag
    /\ groups = {}
    /\ groupMembers = EmptyBag
    /\ event_pictures = {}
    /\ posts = {}
    /\ post_pictures = {}
    /\ calls = [c \in PictureCallIds |-> IdlePicture]
    /\ last = NoResponse

NextPictureRace ==
    \/ PictureCallArrives
    \/ PictureCallChecks
    \/ PictureCallInserts
    \/ CreateEventMeanwhile
    \/ AddMembersMeanwhile

SpecPictureRace == InitPictureRace /\ [][NextPictureRace]_vars

\* ------------------------------------------------- taps at two events
FrameEventIds == {"e1", "e2"}

CreateEventOfTwo ==
    /\ \E creator_id \in UserIds, new_event_id \in FrameEventIds \ events :
            create_event(creator_id, new_event_id)
    /\ UNCHANGED <<DB_POOL, users, friendships, groups, groupMembers, event_pictures,
                   posts, post_pictures, calls>>

\* request bodies naming one user or two
FrameUserIdLists == {xs \in UserIdLists : Len(xs) <= 2}

AddMembersToEventOfTwo ==
    /\ \E event_id \in FrameEventIds, user_ids \in FrameUserIdLists :
            add_members_to_event(event_id, user_ids)
    /\ UNCHANGED <<DB_POOL, users, friendships, events, groups, groupMembers, event_pictures,
                   posts, post_pictures, calls>>

TapUserAtEventOfTwo ==
    /\ \E event_id \in FrameEventIds, tapper_id \in UserIds, tapped_id \in UserIds :
            tap_user_at_event(event_id, tapper_id, tapped_id)
    /\ UNCHANGED <<DB_POOL, users, friendships, events, groups, groupMembers, event_pictures,
                   posts, post_pictures, calls>>

NextTapFrame ==
    \/ CreateEventOfTwo
    \/ AddMembersToEventOfTwo
    \/ TapUserAtEventOfTwo

\* every user is stored; no event is
InitTapFrame ==
    /\ DB_POOL \in lifespan
    /\ users = UsersTable(UserIds)
    /\ friendships = {}
    /\ events = {}
    /\ eventMembers = EmptyBag
    /\ groups = {}
    /\ groupMembers = EmptyBag
    /\ event_pictures = {}
    /\ posts = {}
    /\ post_pictures = {}
    /\ calls = << >>
    /\ last = NoResponse

SpecTapFrame == InitTapFrame /\ [][NextTapFrame]_vars

\* ------------------------------------------------ friendship properties
\* the rows of table t stored for the unordered pair {a, b}
PairRows(t, a, b) ==
    {r \in t : {r.user_one_id, r.user_two_id} = {a, b}}

Terminal(r) == r.status \in {"accepted", "declined"}

\* C1: in every reachable state the friendships table holds at most one row
\* for each unordered pair of users.
C1_OneRowPerPair ==
    \A r1, r2 \in friendships :
        {r1.user_one_id, r1.user_two_id} = {r2.user_one_id, r2.user_two_id} => r1 = r2

\* two pairs have an answered row, one requested by its lower and one by its
\* higher member, and a request sent after the answers got 409: it named a
\* pair that already had its row
C1_Witness ==
    /\ Cardinality(friendships) = 2
    /\ \A r \in friendships : Terminal(r)
    /\ \E r1, r2 \in friendships :
           /\ r1.action_user_id = r1.user_one_id
           /\ r2.action_user_id = r2.user_two_id
    /\ last.op = "send_friend_request"
    /\ last.status = 409

\* C2: sendRequest(A,B) with A # B, both users existing and no row for the
\* pair answers 201 and leaves exactly one row for the pair, pending, with
\* action_user_id = A.
C2_SendSucceeds ==
    [][last'.op = "send_friend_request" => \A a, b \in UserIds :
         ( /\ a # b
           /\ UserExists(a) /\ UserExists(b)
           /\ PairRows(friendships, a, b) = {}
           /\ ~PoolUnavailable
           /\ send_friend_request(a, b) )
         => ( /\ last'.status = 201
              /\ PairRows(friendships', a, b) =
                     {FriendRow(min(a, b), max(a, b), "pending", a)} )]_vars

\* the part of C2 about the stored row, which the code does satisfy
C2_RowStored ==
    [][last'.op = "send_friend_request" => \A a, b \in UserIds :
         ( /\ a # b
           /\ UserExists(a) /\ UserExists(b)
           /\ PairRows(friendships, a, b) = {}
           /\ ~PoolUnavailable
           /\ send_friend_request(a, b) )
         => PairRows(friendships', a, b) =
               {FriendRow(min(a, b), max(a, b), "pending", a)}]_vars

\* C3: once a row for {A,B} exists in any status, every later
\* sendRequest(A,B) or sendRequest(B,A) is answered 409.
C3_SecondRequestConflicts ==
    [][last'.op = "send_friend_request" => \A a, b \in UserIds :
         ( /\ a # b
           /\ PairRows(friendships, a, b) # {}
           /\ send_friend_request(a, b) )
         => last'.status = 409]_vars

\* users 1 and 2 only, their request already answered, and a request between
\* them answered 409
C3_Witness ==
    /\ users = UsersTable({1, 2})
    /\ \E r \in friendships : Terminal(r)
    /\ last.op = "send_friend_request"
    /\ last.status = 409

\* C4: every friendship row has user_one_id < user_two_id.
C4_CanonicalOrder ==
    \A r \in friendships : r.user_one_id < r.user_two_id

\* a pending row whose requester is the higher id: sent as
\* sendRequest(max, min) and stored as (min, max)
C4_Witness ==
    \E r \in friendships :
        /\ r.status = "pending"
        /\ r.action_user_id = r.user_two_id
        /\ r.user_one_id < r.user_two_id

\* C5: a row's status only changes pending -> accepted or pending -> declined;
\* an accepted or declined row keeps its status and action_user_id, and no
\* row is ever removed.
C5_TerminalStatus ==
    [][\A r \in friendships :
         IF Terminal(r)
         THEN PairRows(friendships', r.user_one_id, r.user_two_id) = {r}
         ELSE \E r2 \in friendships' :
                 /\ r2.user_one_id = r.user_one_id
                 /\ r2.user_two_id = r.user_two_id
                 /\ (r2 = r \/ Terminal(r2))]_vars

\* an answered row is there while a later respond is refused
C5_Witness ==
    /\ \E r \in friendships : r.status = "accepted"
    /\ \E r \in friendships : r.status = "declined"
    /\ last.op = "update_friend_request"
    /\ last.status = 404

\* C6: a respond that succeeds finds the pair's row with action_user_id =
\* requesterId and responderId the other member of the pair; a respond whose
\* responder is the user who sent the pending request is answered 404 and
\* changes nothing.
C6_NonInitiatorResponds ==
    [][last'.op = "update_friend_request" =>
       \A q, p \in UserIds :
          /\ last'.status = 200 =>
                \A a \in FriendRequestAction :
                   update_friend_request(q, p, a) =>
                      /\ q # p
                      /\ \E r \in PairRows(friendships, q, p) : r.action_user_id = q
          /\ (\E r \in PairRows(friendships, q, p) :
                  r.status = "pending" /\ r.action_user_id = p) =>
                \A a \in FriendRequestAction :
                   update_friend_request(q, p, a) =>
                      (last'.status = 404 /\ friendships' = friendships)]_vars

\* users 1 and 2 only, the request of 1 still pending after a refused respond
C6_Witness ==
    /\ users = UsersTable({1, 2})
    /\ friendships = {FriendRow(1, 2, "pending", 1)}
    /\ last.op = "update_friend_request"
    /\ last.status = 404

\* C7: respond is answered 404 and leaves friendships unchanged whenever no
\* row for the canonical pair exists, or the row is not pending, or its
\* action_user_id is not requesterId (the pool being available).
C7_RespondNotFound ==
    [][(last'.op = "update_friend_request" /\ ~PoolUnavailable) =>
       \* the conclusion does not depend on the arguments: a step that meets it
       \* needs no search for them
       \/ (last'.status = 404 /\ friendships' = friendships)
       \/ \A q, p \in UserIds :
             (\A r \in friendships :
                 \/ r.user_one_id # min(q, p)
                 \/ r.user_two_id # max(q, p)
                 \/ r.status # "pending"
                 \/ r.action_user_id # q) =>
                \A a \in FriendRequestAction : ~update_friend_request(q, p, a)]_vars

\* a respond refused while the only row is an accepted one
C7_Witness ==
    /\ Cardinality(friendships) = 1
    /\ \E r \in friendships : r.status = "accepted"
    /\ last.op = "update_friend_request"
    /\ last.status = 404

\* C8: a successful respond(requesterId, responderId, action) sets the pair's
\* row to status = action and action_user_id = responderId and changes no
\* other row.
C8_RespondEffect ==
    [][(last'.op = "update_friend_request" /\ last'.status = 200) =>
       \A q, p \in UserIds, a \in FriendRequestAction :
          update_friend_request(q, p, a) =>
             /\ PairRows(friendships', q, p) =
                   {FriendRow(min(q, p), max(q, p), a, p)}
             /\ friendships' \ PairRows(friendships', q, p) =
                   friendships \ PairRows(friendships, q, p)]_vars

\* a respond has just succeeded on one of two rows
C8_Witness ==
    /\ Cardinality(friendships) = 2
    /\ \E r \in friendships : r.status = "pending"
    /\ \E r \in friendships : r.status = "declined"
    /\ last.op = "update_friend_request"
    /\ last.status = 200

\* C9: sendRequest(A,A) is answered 400 for every user A and leaves
\* friendships unchanged (the pool being available).
C9_SelfRequestRejected ==
    [][last'.op = "send_friend_request" => \A a \in UserIds :
         (~PoolUnavailable /\ send_friend_request(a, a))
         => (last'.status = 400 /\ friendships' = friendships)]_vars

\* a self-request refused while a row exists
C9_Witness ==
    /\ friendships # {}
    /\ last.op = "send_friend_request"
    /\ last.status = 400

\* ------------------------------------------------ membership properties
IsEventMember(event_id, u) == EventRows(eventMembers, event_id, u) # {}
IsGroupMember(group_id, u) == GroupRows(groupMembers, group_id, u) # {}

\* one stored row per (container, user) key
MembershipUnique ==
    /\ \A r \in BagToSet(eventMembers) :
           /\ CopiesIn(r, eventMembers) = 1
           /\ EventRows(eventMembers, r.event_id, r.user_id) = {r}
    /\ \A r \in BagToSet(groupMembers) :
           /\ CopiesIn(r, groupMembers) = 1
           /\ GroupRows(groupMembers, r.group_id, r.user_id) = {r}

EventMembersOf(event_id) ==
    {r.user_id : r \in {x \in BagToSet(eventMembers) : x.event_id = event_id}}
GroupMembersOf(group_id) ==
    {r.user_id : r \in {x \in BagToSet(groupMembers) : x.group_id = group_id}}

\* the non-empty request lists that name members only
ListsOver(members) ==
    {xs \in UserIdLists : xs # << >> /\ set(xs) \subseteq members}

\* an add-members request naming only users who already are members is
\* answered 200 with added_count = 0 and stores nothing
ReAddIsNoOp ==
    /\ last'.op = "add_members_to_event" =>
          \A event_id \in EventIds :
             \A user_ids \in ListsOver(EventMembersOf(event_id)) :
                add_members_to_event(event_id, user_ids)
                => ( /\ last'.status = 200
                     /\ last'.added_count = 0
                     /\ eventMembers' = eventMembers )
    /\ last'.op = "add_members_to_group" =>
          \A group_id \in GroupIds :
             \A user_ids \in ListsOver(GroupMembersOf(group_id)) :
                add_members_to_group(group_id, user_ids)
                => ( /\ last'.status = 200
                     /\ last'.added_count = 0
                     /\ groupMembers' = groupMembers )

\* C10: for events and for groups, adding a user who already is a member
\* succeeds with added_count = 0, and in every reachable state the
\* membership tables hold at most one row per (container, user).
C10_ReAddIdempotent == [](MembershipUnique) /\ [][ReAddIsNoOp]_vars

\* the event and the group each have two members and the last add-members
\* request added nobody
C10_Witness ==
    /\ \E e \in events : \E u, v \in UserIds :
           u # v /\ IsEventMember(e, u) /\ IsEventMember(e, v)
    /\ \E g \in groups : \E u, v \in UserIds :
           u # v /\ IsGroupMember(g, u) /\ IsGroupMember(g, v)
    /\ last.op \in {"add_members_to_event", "add_members_to_group"}
    /\ last.status = 200
    /\ last.added_count = 0

\* a successful add-members request reports the number of distinct named
\* users who were not members and leaves the old members plus the named users
AddCountsNewMembers ==
    /\ (last'.op = "add_members_to_event" /\ last'.status = 200) =>
          \A event_id \in EventIds :
             LET before == EventMembersOf(event_id)
                 after == EventMembersOf(event_id)'
             IN \A user_ids \in UserIdLists :
                   \/ ( /\ last'.added_count = Cardinality(set(user_ids) \ before)
                        /\ after = before \cup set(user_ids) )
                   \/ ~add_members_to_event(event_id, user_ids)
    /\ (last'.op = "add_members_to_group" /\ last'.status = 200) =>
          \A group_id \in GroupIds :
             LET before == GroupMembersOf(group_id)
                 after == GroupMembersOf(group_id)'
             IN \A user_ids \in UserIdLists :
                   \/ ( /\ last'.added_count = Cardinality(set(user_ids) \ before)
                        /\ after = before \cup set(user_ids) )
                   \/ ~add_members_to_group(group_id, user_ids)

\* C11: a successful addMembers returns added_count = the number of distinct
\* userIds that were not members before, and afterwards the member set is the
\* old member set plus the distinct userIds (an id named twice counts once).
C11_AddedCount == [][AddCountsNewMembers]_vars

\* an add-members request on an event that already had two members added
\* exactly one
C11_Witness ==
    /\ last.op = "add_members_to_event"
    /\ last.status = 200
    /\ last.added_count = 1
    /\ \E e \in events : Cardinality(EventMembersOf(e)) = 3

\* the requests C12 is about: the container or a named user does not exist
NamesMissingEvent(event_id, user_ids) ==
    event_id \notin events \/ \E u \in set(user_ids) : ~UserExists(u)
NamesMissingGroup(group_id, user_ids) ==
    group_id \notin groups \/ \E u \in set(user_ids) : ~UserExists(u)

\* C12 as stated: addMembers where the container or at least one of the
\* userIds does not exist fails with NotFound and inserts no row at all.
C12_MissingNotFound ==
    [][/\ (last'.op = "add_members_to_event" /\ ~PoolUnavailable) =>
             \/ (last'.status = 404 /\ eventMembers' = eventMembers)
             \/ \A event_id \in EventIds : \A user_ids \in UserIdLists :
                   NamesMissingEvent(event_id, user_ids)
                   => ~add_members_to_event(event_id, user_ids)
       /\ (last'.op = "add_members_to_group" /\ ~PoolUnavailable) =>
             \/ (last'.status = 404 /\ groupMembers' = groupMembers)
             \/ \A group_id \in GroupIds : \A user_ids \in UserIdLists :
                   NamesMissingGroup(group_id, user_ids)
                   => ~add_members_to_group(group_id, user_ids)]_vars

\* C12, amended: addMembers with a non-empty userIds list where the container
\* or at least one of the userIds does not exist fails with NotFound and
\* inserts no row at all (the empty list is answered InvalidArgument first).
C12_MissingNotFoundNonEmpty ==
    [][/\ (last'.op = "add_members_to_event" /\ ~PoolUnavailable) =>
             \/ (last'.status = 404 /\ eventMembers' = eventMembers)
             \/ \A event_id \in EventIds : \A user_ids \in UserIdLists :
                   (user_ids # << >> /\ NamesMissingEvent(event_id, user_ids))
                   => ~add_members_to_event(event_id, user_ids)
       /\ (last'.op = "add_members_to_group" /\ ~PoolUnavailable) =>
             \/ (last'.status = 404 /\ groupMembers' = groupMembers)
             \/ \A group_id \in GroupIds : \A user_ids \in UserIdLists :
                   (user_ids # << >> /\ NamesMissingGroup(group_id, user_ids))
                   => ~add_members_to_group(group_id, user_ids)]_vars

\* an add-members request on an existing event with members was answered 404
\* while some user does not exist
C12_Witness ==
    /\ last.op = "add_members_to_event"
    /\ last.status = 404
    /\ \E e \in events : EventMembersOf(e) # {}
    /\ \E u \in UserIds : ~UserExists(u)

\* C13: after a successful createGroup(creator, name, memberIds) the member
\* set of the new group is exactly the distinct memberIds plus the creator,
\* one row per user, also when memberIds has duplicates or names the creator.
C13_GroupMembers ==
    [][(last'.op = "create_group_with_members" /\ last'.status = 201) =>
          \A creator_id \in UserIds : \A initial_member_ids \in UserIdLists :
             \A new_group_id \in GroupIds \ groups :
                create_group_with_members(creator_id, initial_member_ids,
                                          new_group_id)
                => ( /\ GroupMembersOf(new_group_id)' =
                           set(initial_member_ids) \cup {creator_id}
                     /\ \A u \in GroupMembersOf(new_group_id)' :
                           CopiesIn(GroupMemberRow(new_group_id, u),
                                    groupMembers') = 1 )]_vars

\* a group was just created with two members
C13_Witness ==
    /\ last.op = "create_group_with_members"
    /\ last.status = 201
    /\ \E g \in groups : Cardinality(GroupMembersOf(g)) = 2

\* every group row has a membership row and every membership row a group row
GroupsWhole ==
    /\ \A g \in groups : GroupMembersOf(g) # {}
    /\ \A r \in BagToSet(groupMembers) : r.group_id \in groups

\* C14: createGroup is all-or-nothing: with a creator or a member that does
\* not exist it fails with NotFound and neither the group row nor any
\* membership row exists afterwards; no reachable state has a group without
\* its members.
C14_GroupAllOrNothing ==
    /\ [](GroupsWhole)
    /\ [][(last'.op = "create_group_with_members" /\ ~PoolUnavailable) =>
             \/ ( /\ last'.status = 404
                  /\ groups' = groups
                  /\ groupMembers' = groupMembers )
             \/ \A creator_id \in UserIds :
                   \A initial_member_ids \in UserIdLists :
                      (\E u \in set(initial_member_ids) \cup {creator_id} :
                          ~UserExists(u))
                      => \A new_group_id \in GroupIds \ groups :
                            ~create_group_with_members(
                                creator_id, initial_member_ids, new_group_id)]_vars

\* a createGroup request was answered 404 and there is no group
C14_Witness ==
    /\ last.op = "create_group_with_members"
    /\ last.status = 404
    /\ groups = {}
    /\ groupMembers = EmptyBag
    /\ \E u \in UserIds : UserExists(u)

\* every event row has a membership row and every membership row an event row
EventsWhole ==
    /\ \A e \in events : EventMembersOf(e) # {}
    /\ \A r \in BagToSet(eventMembers) : r.event_id \in events

\* createEvent stores the event together with its creator's row, or with a
\* creator that does not exist answers 404 and stores nothing
CreateEventEffect ==
    (last'.op = "create_event" /\ ~PoolUnavailable) =>
       \A creator_id \in UserIds : \A new_event_id \in EventIds \ events :
          create_event(creator_id, new_event_id)
          => IF UserExists(creator_id)
             THEN /\ last'.status = 201
                  /\ new_event_id \in events'
                  /\ creator_id \in EventMembersOf(new_event_id)'
             ELSE /\ last'.status = 404
                  /\ events' = events
                  /\ eventMembers' = eventMembers

\* no step removes an event's member
MembersStay ==
    \A e \in events : e \in events' /\ EventMembersOf(e) \subseteq EventMembersOf(e)'

\* C15: every existing event has a membership row for its creator: createEvent
\* stores both rows or neither, no step removes a member, and with a creator
\* that does not exist createEvent fails with NotFound and stores no event.
C15_CreatorIsMember ==
    [](EventsWhole) /\ [][CreateEventEffect /\ MembersStay]_vars

\* an event was just created, its creator being its only member
C15_Witness ==
    /\ last.op = "create_event"
    /\ last.status = 201
    /\ \E e \in events : Cardinality(EventMembersOf(e)) = 1

\* ------------------------------------------------------ tap properties
Tapped(event_id, u) == \E r \in EventRows(eventMembers, event_id, u) : r.tapped

BothMembers(event_id, a, b) == IsEventMember(event_id, a) /\ IsEventMember(event_id, b)

\* C16: tap(event, A, B) with A # B fails with 403 whenever A or B (or both)
\* is not a member of the event, and the failed tap changes no tapped flag.
C16_TapNeedsBothMembers ==
    [][(last'.op = "tap_user_at_event" /\ ~PoolUnavailable) =>
          \/ (last'.status = 403 /\ eventMembers' = eventMembers)
          \/ \A event_id \in EventIds : \A a, b \in UserIds :
                (a # b /\ ~BothMembers(event_id, a, b))
                => ~tap_user_at_event(event_id, a, b)]_vars

\* a tap was refused with 403 at an event that has two tapped members
C16_Witness ==
    /\ last.op = "tap_user_at_event"
    /\ last.status = 403
    /\ \E e \in events : \E u, v \in UserIds :
          u # v /\ Tapped(e, u) /\ Tapped(e, v)

\* a tap between two members succeeds and leaves both tapped; when both were
\* tapped already it changes nothing; no step clears a flag
TapSetsBoth ==
    /\ (last'.op = "tap_user_at_event" /\ ~PoolUnavailable) =>
          \A event_id \in EventIds : \A a, b \in UserIds :
             (a # b /\ BothMembers(event_id, a, b)
                    /\ tap_user_at_event(event_id, a, b))
             => ( /\ last'.status = 200
                  /\ Tapped(event_id, a)' /\ Tapped(event_id, b)'
                  /\ (Tapped(event_id, a) /\ Tapped(event_id, b))
                        => eventMembers' = eventMembers )
    /\ \A event_id \in EventIds : \A u \in UserIds :
          Tapped(event_id, u) => Tapped(event_id, u)'

\* C17: tap is idempotent: with A and B members, tap(A, B) followed by
\* tap(B, A) leaves both with tapped = true, and every further tap between
\* them succeeds and leaves the state unchanged.
C17_TapIdempotent == [][TapSetsBoth]_vars

\* three members of one event are tapped, so one of them was tapped twice
C17_Witness ==
    /\ last.op = "tap_user_at_event"
    /\ last.status = 200
    /\ \E e \in events : Cardinality({u \in UserIds : Tapped(e, u)}) = 3

\* C18: tap is commutative in its two users: tap(event, A, B) and
\* tap(event, B, A) have the same outcome and the same resulting state.
C18_TapCommutes ==
    [][last'.op = "tap_user_at_event" =>
          \A event_id \in EventIds : \A a, b \in UserIds :
             tap_user_at_event(event_id, a, b) => tap_user_at_event(event_id, b, a)]_vars

\* a tap succeeded at an event with three members, one of them untapped
C18_Witness ==
    /\ last.op = "tap_user_at_event"
    /\ last.status = 200
    /\ \E e \in events :
          /\ Cardinality(EventMembersOf(e)) = 3
          /\ Cardinality({u \in UserIds : Tapped(e, u)}) = 2

\* C19: tap(event, A, A) fails with 400 for every A, member or not, and
\* changes no tapped flag.
C19_SelfTapRejected ==
    [][(last'.op = "tap_user_at_event" /\ ~PoolUnavailable) =>
          \/ (last'.status = 400 /\ eventMembers' = eventMembers)
          \/ \A event_id \in EventIds : \A a \in UserIds :
                ~tap_user_at_event(event_id, a, a)]_vars

\* a tap was refused with 400 at an event that has a member and a non-member
C19_Witness ==
    /\ last.op = "tap_user_at_event"
    /\ last.status = 400
    /\ \E e \in events : \E u, v \in UserIds :
          IsEventMember(e, u) /\ ~IsEventMember(e, v)

\* -------------------------------------------------- picture properties
\* an upload by a member stores one new row and answers 201; an upload by a
\* non-member answers 403 and stores nothing
UploadNeedsMember ==
    (last'.op = "add_picture_to_event" /\ ~PoolUnavailable) =>
       \A event_id \in EventIds : \A u \in UserIds : \A picture_url \in PictureUrls :
          add_picture_to_event(event_id, u, picture_url)
          => IF IsEventMember(event_id, u)
             THEN /\ last'.status = 201
                  /\ \E p \in event_pictures' \ event_pictures :
                        /\ p.event_id = event_id
                        /\ p.uploader_id = u
                        /\ p.picture_url = picture_url
                        /\ event_pictures' = event_pictures \cup {p}
             ELSE /\ last'.status = 403
                  /\ event_pictures' = event_pictures

\* the detail of an event that has a picture is served
DetailServed ==
    (last'.op = "get_event_details" /\ ~PoolUnavailable) =>
       \A event_id \in events :
          (PicturesOf(event_id) # {} /\ get_event_details(event_id))
          => last'.status = 200

\* C20: addEventPicture(event, U) succeeds exactly when U is a member of the
\* event at call time: a non-member is refused with 403 and no picture row is
\* stored; once U was added the upload succeeds and the picture is listed in
\* getEventDetail(E).
C20_PictureUpload == [][UploadNeedsMember /\ DetailServed]_vars

\* C20, the part about the upload alone: it succeeds exactly when U is a
\* member at call time, and a refused upload stores no row.
C20_UploadGuard == [][UploadNeedsMember]_vars

\* an event with two members has a picture by a member who joined later
C20_Witness ==
    /\ last.op = "add_picture_to_event"
    /\ last.status = 201
    /\ \E e \in events : Cardinality(EventMembersOf(e)) = 2
    /\ event_pictures # {}

\* ----------------------------------------------------- post properties
\* C21: addPostPicture(post, uploader) stores a picture only when uploader is
\* the post's poster: any other uploader is refused with 403, a post that does
\* not exist with 404, and in both cases no post-picture row is added.
C21_OnlyPosterUploads ==
    [][(last'.op = "add_picture_to_post" /\ ~PoolUnavailable) =>
          \A post_id \in PostIds : \A u \in UserIds : \A picture_url \in PictureUrls :
             add_picture_to_post(post_id, u, picture_url)
             => IF \A r \in posts : r.post_id # post_id
                THEN last'.status = 404 /\ post_pictures' = post_pictures
                ELSE IF \E r \in posts : r.post_id = post_id /\ r.poster_id # u
                THEN last'.status = 403 /\ post_pictures' = post_pictures
                ELSE /\ last'.status = 201
                     /\ \E p \in post_pictures' \ post_pictures :
                           /\ p.post_id = post_id
                           /\ post_pictures' = post_pictures \cup {p}]_vars

\* an upload was refused with 403 for a post whose event has two members
C21_Witness ==
    /\ last.op = "add_picture_to_post"
    /\ last.status = 403
    /\ post_pictures # {}
    /\ \E r \in posts : Cardinality(EventMembersOf(r.event_id)) >= 2

\* every post was written by a member of its event
PostersAreMembers ==
    \A r \in posts : IsEventMember(r.event_id, r.poster_id)

\* C22: in every reachable state every post's poster is a member of the
\* post's event: createPost by a user who is not a member of the event fails
\* with 403 and creates no post.
C22_PosterIsMember ==
    /\ [](PostersAreMembers)
    /\ [][(last'.op = "create_post" /\ ~PoolUnavailable) =>
             \/ (last'.status = 403 /\ posts' = posts)
             \/ \A event_id \in EventIds : \A u \in UserIds :
                   ~IsEventMember(event_id, u) => ~create_post(event_id, u)]_vars

\* a createPost was refused with 403 while the event has a post and a user
\* who is not a member exists
C22_Witness ==
    /\ last.op = "create_post"
    /\ last.status = 403
    /\ posts # {}
    /\ \E e \in events : \E r \in users : ~IsEventMember(e, r.user_id)

\* ------------------------------------------- missing-event properties
\* C23: tap, addEventPicture and createPost that name an event which does not
\* exist fail with 404: an absent referenced entity is reported as NotFound,
\* not as Forbidden.
C23_MissingEventNotFound ==
    [][~PoolUnavailable =>
          \A event_id \in EventIds \ events : \A a, b \in UserIds :
             /\ (a # b /\ last'.op = "tap_user_at_event"
                       /\ tap_user_at_event(event_id, a, b))
                => last'.status = 404
             /\ (last'.op = "add_picture_to_event"
                   /\ \E picture_url \in PictureUrls :
                         add_picture_to_event(event_id, a, picture_url))
                => last'.status = 404
             /\ (last'.op = "create_post" /\ create_post(event_id, a))
                => last'.status = 404]_vars

\* what the three handlers answer instead: 403, with nothing stored
C23_MissingEventForbidden ==
    [][~PoolUnavailable =>
          \A event_id \in EventIds \ events : \A a, b \in UserIds :
             /\ (a # b /\ last'.op = "tap_user_at_event"
                       /\ tap_user_at_event(event_id, a, b))
                => (last'.status = 403 /\ eventMembers' = eventMembers)
             /\ (last'.op = "add_picture_to_event"
                   /\ \E picture_url \in PictureUrls :
                         add_picture_to_event(event_id, a, picture_url))
                => (last'.status = 403 /\ event_pictures' = event_pictures)
             /\ (last'.op = "create_post" /\ create_post(event_id, a))
                => (last'.status = 403 /\ posts' = posts)]_vars

\* ------------------------------------------------ identity properties
\* the rows stored for a subject
SubjectRows(t, auth0_sub) == {r \in t : r.auth0_sub = auth0_sub}

\* a call for a subject nobody holds stores one row under a new id and
\* returns that id; a call for a known subject returns its id, stores nothing
ResolveOrCreate ==
    (last'.op = "get_or_create_user" /\ ~PoolUnavailable) =>
       \A auth0_sub \in Auth0Subs :
          get_or_create_user(auth0_sub)
          => /\ last'.status = 200
             /\ IF SubjectRows(users, auth0_sub) = {}
                THEN /\ ~UserExists(last'.user_id)
                     /\ users' = users \cup {UserRow(last'.user_id, auth0_sub)}
                ELSE /\ users' = users
                     /\ SubjectRows(users, auth0_sub) =
                           {UserRow(last'.user_id, auth0_sub)}

\* C24: resolveOrCreateUser is idempotent per subject when calls run one
\* after another: the first call for a new subject creates exactly one user
\* and returns its id, every later call with that subject returns the same id
\* and creates no user.
C24_ResolveIdempotent ==
    /\ [](\A auth0_sub \in Auth0Subs : Cardinality(SubjectRows(users, auth0_sub)) <= 1)
    /\ [][ResolveOrCreate]_vars

\* two subjects are known and the last call returned the id of one of them
C24_Witness ==
    /\ last.op = "get_or_create_user"
    /\ last.status = 200
    /\ Cardinality(users) = 2
    /\ \E r \in users : r.user_id = last.user_id

\* at most one row per subject, and an answered call that returned an id
\* returned the id stored for its subject
OneUserPerSubject ==
    /\ \A auth0_sub \in Auth0Subs : Cardinality(SubjectRows(users, auth0_sub)) <= 1
    /\ \A c \in CallIds :
          (calls[c].pc = "done" /\ calls[c].status = 200)
          => UserRow(calls[c].user_id, calls[c].auth0_sub) \in users

\* an insert for a subject that got its row meanwhile fails with 500 and
\* stores nothing; any other insert stores the row and returns its id
LoserFails ==
    \A c \in CallIds :
       (calls[c].pc = "insert" /\ calls'[c].pc = "done")
       => IF SubjectRows(users, calls[c].auth0_sub) # {}
          THEN calls'[c].status = 500 /\ users' = users
          ELSE /\ calls'[c].status = 200
               /\ users' = users \cup {UserRow(calls'[c].user_id, calls[c].auth0_sub)}

\* C25: under any interleaving of concurrent resolveOrCreateUser calls for
\* the same unknown subject (lookup and insert being separate steps) at most
\* one user row with that subject ever exists; a call whose insert loses the
\* race fails with an error and returns no id of a user that was not stored.
C25_RaceOneRow == [](OneUserPerSubject) /\ [][LoserFails]_vars

\* two calls for one subject both passed the lookup; one stored the row,
\* the other failed
C25_Witness ==
    \E c, d \in CallIds :
       /\ calls[c].pc = "done" /\ calls[d].pc = "done"
       /\ calls[c].auth0_sub = calls[d].auth0_sub
       /\ calls[c].status = 200 /\ calls[d].status = 500

\* ------------------------------------------------- profile properties
\* the users whose pair with u has a row of the given status
FriendsOf(u, status) ==
    {v \in UserIds \ {u} : \E r \in PairRows(friendships, u, v) : r.status = status}

\* C26: the friend count reported by getProfile(U) is the number of
\* friendship rows with status accepted that have U as user_one_id or
\* user_two_id: pending and declined rows are not counted, and an accepted
\* pair counts once for each of its two members.
C26_FriendCount ==
    [][(last'.op = "get_user_profile" /\ last'.status = 200) =>
          /\ get_user_profile(last'.user_id)
          /\ last'.friend_count = Cardinality(FriendsOf(last'.user_id, "accepted"))]_vars

\* a profile reported one friend for a user who also has a pair that is
\* pending or declined
C26_Witness ==
    /\ last.op = "get_user_profile"
    /\ last.status = 200
    /\ last.friend_count = 1
    /\ last.user_id = 2
    /\ \E r \in friendships : r.user_one_id = 2 /\ r.status # "accepted"
    /\ \E r \in friendships : r.user_two_id = 2 /\ r.status = "accepted"

\* C27: getProfile(U) for an existing user U who is a member of no event
\* succeeds with event_count = 0 and an empty latest-events list; it never
\* fails for lack of events.
C27_ProfileWithoutEvents ==
    [][(last'.op = "get_user_profile" /\ ~PoolUnavailable) =>
          \A u \in UserIds :
             (UserExists(u) /\ (\A e \in EventIds : ~IsEventMember(e, u))
                            /\ get_user_profile(u))
             => ( /\ last'.status = 200
                  /\ last'.event_count = 0
                  /\ last'.latest_events = {} )]_vars

\* a profile was served for a user without events while an event with a
\* member exists
C27_Witness ==
    /\ last.op = "get_user_profile"
    /\ last.status = 200
    /\ last.event_count = 0
    /\ \E e \in events : EventMembersOf(e) # {}

\* --------------------------------------------------- outage properties
\* the stored tables
store == <<users, friendships, events, eventMembers, groups, groupMembers,
           event_pictures, posts, post_pictures>>

\* C28: while the connection pool is unavailable (never initialised, also
\* when its creation failed at startup) every store-backed operation fails
\* with 503 before any statement runs, so no stored state changes.
C28_OutageUnavailable ==
    [][DB_POOL = NoPool => (last'.status = 503 /\ store' = store)]_vars

\* a tap was answered 503 while the store holds an event, a group and a
\* pending friend request
C28_Witness ==
    /\ DB_POOL = NoPool
    /\ last.op = "tap_user_at_event"
    /\ last.status = 503
    /\ events # {} /\ groups # {} /\ friendships # {}

\* ------------------------------------------------- conflict properties
\* C29: whenever sendRequest returns 409 the friendships relation is the
\* same before and after the call: an error response never comes with a
\* newly inserted or modified friendship row.
C29_ConflictChangesNothing ==
    [][(last'.op = "send_friend_request" /\ last'.status = 409)
          => friendships' = friendships]_vars

\* 409 given for a pair that had a row before the call comes with no change
C29_RealConflictChangesNothing ==
    [][(last'.op = "send_friend_request" /\ last'.status = 409) =>
          \A requester_id, addressee_id \in UserIds :
             (PairRows(friendships, requester_id, addressee_id) # {}
                /\ send_friend_request(requester_id, addressee_id))
             => friendships' = friendships]_vars

\* ---------------------------------------------- respond-race properties
\* C30: when two respond calls for the same pending request run concurrently
\* (say one accept and one decline), exactly one succeeds and the other fails
\* with 404; the final status and action_user_id are those written by the one
\* that succeeded.  Stated, with the pool available, of every two answered
\* calls that both arrived while the request they name was pending.
C30_OneRespondWins ==
    \A c, d \in RespondCallIds :
       ( /\ c # d
         /\ DB_POOL = Pool
         /\ calls[c].pc = "done" /\ calls[d].pc = "done"
         /\ calls[c].pending_at_call /\ calls[d].pending_at_call
         /\ calls[c].requester_id = calls[d].requester_id
         /\ calls[c].responder_id = calls[d].responder_id )
       => \E w \in {c, d} :
             /\ calls[w].status = 200
             /\ \A l \in {c, d} \ {w} : calls[l].status = 404
             /\ PairRows(friendships, calls[w].requester_id, calls[w].responder_id) =
                   {FriendRow(min(calls[w].requester_id, calls[w].responder_id),
                              max(calls[w].requester_id, calls[w].responder_id),
                              calls[w].new_status, calls[w].responder_id)}

\* an accept and a decline of the same pending request were both answered
C30_Witness ==
    /\ calls["r1"].pc = "done" /\ calls["r2"].pc = "done"
    /\ calls["r1"].pending_at_call /\ calls["r2"].pending_at_call
    /\ calls["r1"].new_status = "accepted" /\ calls["r2"].new_status = "declined"
    /\ calls["r1"].status = 404 /\ calls["r2"].status = 200

\* ------------------------------------------- properties of requests in flight
AddCallValid(c) ==
    /\ DB_POOL = Pool
    /\ calls[c].user_ids_list # << >>
    /\ calls[c].event_id \in events
    /\ \A i \in 1..Len(calls[c].user_ids_list) : UserExists(calls[c].user_ids_list[i])

C31_RowsUniqueAndCounted ==
    /\ \A r \in BagToSet(eventMembers) : CopiesIn(r, eventMembers) = 1
    /\ \A r1, r2 \in BagToSet(eventMembers) :
          (r1.event_id = r2.event_id /\ r1.user_id = r2.user_id) => r1 = r2
    /\ (\A c \in AddCallIds : calls[c].pc = "done")
          => calls["a1"].added_count + calls["a2"].added_count
                = BagCardinality(eventMembers)

\* C32: under every interleaving of concurrent taps on one event, each tap
\* between two different members made with a connection succeeds, a tap that
\* has succeeded has left both parties' flags set, and every flag a reader
\* finds set was set by a completed tap that set its other party's flag with
\* it.
C32_ConcurrentTaps ==
    /\ \A c \in TapCallIds :
          (/\ calls[c].pc = "done"
           /\ DB_POOL = Pool
           /\ calls[c].tapper_id # calls[c].tapped_id
           /\ BothMembers(calls[c].event_id, calls[c].tapper_id, calls[c].tapped_id))
          => calls[c].status = 200
    /\ \A c \in TapCallIds :
          calls[c].status = 200
          => /\ Tapped(calls[c].event_id, calls[c].tapper_id)
             /\ Tapped(calls[c].event_id, calls[c].tapped_id)
    /\ \A e \in EventIds, u \in UserIds :
          Tapped(e, u)
          => \E c \in TapCallIds :
                /\ calls[c].status = 200
                /\ calls[c].event_id = e
                /\ u \in {calls[c].tapper_id, calls[c].tapped_id}

\* tap(e1, 1, 2) and tap(e1, 2, 1) were in flight together, one of them
\* waited for a row the other had written, and both have succeeded
C32_Witness ==
    /\ calls["t1"].status = 200 /\ calls["t2"].status = 200
    /\ calls["t1"].tapper_id = 1 /\ calls["t1"].tapped_id = 2
    /\ calls["t2"].tapper_id = 2 /\ calls["t2"].tapped_id = 1
    /\ calls["t2"].waited
    /\ Tapped("e1", 1) /\ Tapped("e1", 2)


\* C33: in every reachable state, under every interleaving of the statements
\* of addEventPicture with addMembers and createEvent, the uploader of each
\* stored event picture is a member of the picture's event.
C33_UploaderIsMember ==
    \A p \in event_pictures : IsEventMember(p.event_id, p.uploader_id)

\* a picture is stored for an upload whose uploader was not yet a member when
\* the request arrived and was added before the membership read
C33_Witness ==
    \E c \in PictureCallIds :
        /\ calls[c].status = 201
        /\ ~calls[c].member_at_call
        /\ \E p \in event_pictures :
              p.event_id = calls[c].event_id /\ p.uploader_id = calls[c].uploader_id


\* ------------------------------------------------ tapped flag properties
\* the (event, user) keys of the rows a step stores, removes or rewrites
ChangedKeys ==
    {<<r.event_id, r.user_id>> :
        r \in {x \in BagToSet(eventMembers) \cup BagToSet(eventMembers') :
                  CopiesIn(x, eventMembers) # CopiesIn(x, eventMembers')}}

\* the (event, user) keys of the stored membership rows, and of the tapped ones
MemberKeys == {<<r.event_id, r.user_id>> : r \in BagToSet(eventMembers)}
TappedKeys ==
    {<<r.event_id, r.user_id>> : r \in {x \in BagToSet(eventMembers) : x.tapped}}

\* a row that a step creates is untapped
FlagStartsFalse == (MemberKeys' \ MemberKeys) \cap TappedKeys' = {}

\* a flag becomes true only in a successful tap on its event by or of its user
FlagSetByOwnTap ==
    \A k \in TappedKeys' \ TappedKeys :
        /\ last'.op = "tap_user_at_event"
        /\ last'.status = 200
        /\ k \in MemberKeys
        /\ k[1] \in FrameEventIds
        /\ \E other \in UserIds \ {k[2]} :
              tap_user_at_event(k[1], k[2], other) \/ tap_user_at_event(k[1], other, k[2])

\* a flag that is true stays true
FlagStaysTrue == TappedKeys \subseteq TappedKeys'

\* a tap between a and b at e leaves every other row as it was
TapFrame ==
    (last'.op = "tap_user_at_event" /\ eventMembers' # eventMembers) =>
       LET changed == ChangedKeys
       IN \A e \in FrameEventIds : \A a, b \in UserIds :
             (changed \subseteq {<<e, a>>, <<e, b>>}) \/ ~tap_user_at_event(e, a, b)

\* C34: a membership row's tapped flag is false when createEvent or addMembers
\* creates the row, becomes true only through a successful tap on that event
\* in which the row's user is the tapper or the tapped party, never becomes
\* false again, and a tap between A and B leaves the flags of all other
\* members and of all other events unchanged.
C34_TappedFlagFrame ==
    [][\/ eventMembers' = eventMembers
       \/ FlagStartsFalse /\ FlagSetByOwnTap /\ FlagStaysTrue /\ TapFrame]_vars

\* a tap at e2 has just succeeded between two users who are also members of
\* e1 and untapped there, with a third member of e2 left untapped
C34_Witness ==
    /\ last.op = "tap_user_at_event"
    /\ last.status = 200
    /\ \E a, b, c \in UserIds :
          /\ a # b /\ c \notin {a, b}
          /\ Tapped("e2", a) /\ Tapped("e2", b)
          /\ IsEventMember("e1", a) /\ ~Tapped("e1", a)
          /\ IsEventMember("e1", b) /\ ~Tapped("e1", b)
          /\ IsEventMember("e2", c) /\ ~Tapped("e2", c)


=========================================================================
